---- MODULE Spec2Model ----
(***************************************************************************)
(* gt-telem: the telemetry client (TurismoClient): datagram ingestion,     *)
(* the latest-frame store behind the `telemetry` property, the callback    *)
(* registry and the dispatch of frames to a ThreadPoolExecutor.            *)
(***************************************************************************)
EXTENDS Integers, Sequences, FiniteSets, TLC

(***************************************************************************)
(* Bounds of the model.                                                    *)
(***************************************************************************)
\* datagrams delivered to _handle_data in one run
MaxDatagrams == 2
\* reads of the telemetry property by the reader thread
MaxGets == 2
\* register_callback / deregister_callback calls by the registry thread
MaxRegOps == 2
\* field writes by user code holding a frame (SpecMutable only)
MaxWrites == 1
\* the constructor's max_callback_workers argument
max_callback_workers == 2
\* heartbeats and sleeps counted per session; the counters stop there
MaxHeartbeats == 2
\* DriverEvents / RaceEvents / TurismoGame instances created on the client
MaxCollaborators == 2
\* frames handed one after the other to a state tracker or to the track detector
MaxFrames == 3

(***************************************************************************)
(* Program constants.                                                      *)
(***************************************************************************)
\* crypto.py: ciphertext[0x40:0x44]
SeedOffset == 64
SeedEnd == 68
\* bytes read by _parse_telemetry for the base layout, and the trailers
BaseBodySize == 292
TrailerBSize == 20
TrailerTildeSize == 28
\* body offsets of the two fields the model keeps of a frame
EngineRpmOffset == 56
PacketIdOffset == 108
\* len of the header, message[:4]
HeaderLen == 4
\* the class attribute RECEIVE_PORT and what is added to it for GT7
RECEIVE_PORT == 33339
GT7PortShift == 400
\* asyncio.sleep(10) of the heartbeat loop, in seconds
HeartbeatPeriod == 10

None == "None"
\* the reference None, and the fields of an object that does not exist yet
NoRef == 0
NoObj == [g \in {} |-> 0]
\* the reader has not called the getter yet
Unset == -1
Callbacks == {"cb_sync", "cb_async"}
ArgValues == {None, "ctx"}
Fields == <<"engine_rpm", "packet_id">>
HeartbeatTypes == {"A", "B", "~"}

\* the classes whose constructor attaches an instance to a client, and the
\* static coroutine function each of them hands to the client
CollaboratorClasses == {"DriverEvents", "RaceEvents", "TurismoGame"}
_state_tracker(cls) == cls \o "._state_tracker"

\* asyncio.iscoroutinefunction(callback)
iscoroutinefunction(cb) ==
    cb = "cb_async" \/ cb \in {_state_tracker(cls) : cls \in CollaboratorClasses}

(***************************************************************************)
(* Bytes.                                                                  *)
(***************************************************************************)
RECURSIVE XorBits(_, _, _)
XorBits(a, b, n) ==
    IF n = 0 THEN 0
    ELSE (((a % 2) + (b % 2)) % 2) + (2 * XorBits(a \div 2, b \div 2, n - 1))

\* a ^ b on two bytes
XorByte(a, b) == XorBits(a, b, 8)

XorBytes(s, k) == [i \in DOMAIN s |-> XorByte(s[i], k[i])]

\* the tags "0S7G" and "G6S0" as ASCII bytes
Tag0S7G == <<48, 83, 55, 71>>
TagG6S0 == <<71, 54, 83, 48>>

(***************************************************************************)
(* PDEncyption (net/crypto.py).  A datagram is kept by its size and by the *)
(* bytes the client reads: the header (offsets 0..3), the seed (offsets    *)
(* 0x40..0x43) and the bytes of the two frame fields the model keeps.      *)
(***************************************************************************)
\* _IV_MASK = 0xDEADBEAF as the bytes struct.pack("<I", ...) gives
IV_MASK == <<175, 190, 173, 222>>

\* the mask decrypt uses in a session of heartbeat type hb: the class attribute,
\* whatever hb is
mask_of(hb) == IV_MASK

\* a nonce packed the other way round: the seed first
Nonce_seed_first(seed) == seed \o XorBytes(seed, IV_MASK)

\* iv = struct.pack("<II", seed ^ _IV_MASK, seed)
Nonce(seed) == XorBytes(seed, IV_MASK) \o seed

\* the key chosen by is_gt7, kept by the byte that tells the two keys apart
\* (index 27: "G" of "GT7" or "v" of "ver")
KeyByte(gt7) == IF gt7 THEN 71 ELSE 118

RECURSIVE SumSeq(_)
SumSeq(s) == IF s = <<>> THEN 0 ELSE Head(s) + SumSeq(Tail(s))

\* the keystream byte Salsa20 produces at offset pos under (key, iv); the cipher
\* is kept as a deterministic byte stream that depends on key, nonce and offset
KeyStream(gt7, iv, pos) == (KeyByte(gt7) + SumSeq(iv) + (31 * pos)) % 256

KeyStreamAt(gt7, iv, pos, n) == [i \in 1..n |-> KeyStream(gt7, iv, pos + i - 1)]

\* Salsa20_xor(ciphertext, iv, key): the same size, every byte xored
Salsa20_xor(c, iv, gt7) ==
    [size |-> c.size,
     seed |-> XorBytes(c.seed, KeyStreamAt(gt7, iv, SeedOffset, 4)),
     hdr  |-> XorBytes(c.hdr, KeyStreamAt(gt7, iv, 0, HeaderLen)),
     rpm  |-> XorBytes(c.rpm, KeyStreamAt(gt7, iv, HeaderLen + EngineRpmOffset, 4)),
     pid  |-> XorBytes(c.pid, KeyStreamAt(gt7, iv, HeaderLen + PacketIdOffset, 4))]

\* struct.unpack("<I", ciphertext[0x40:0x44]) raises struct.error when the slice
\* has fewer than 4 bytes
decrypt_raises(c) == c.size < SeedEnd

\* PDEncyption.decrypt
decrypt(c, gt7) == Salsa20_xor(c, Nonce(c.seed), gt7)

(***************************************************************************)
(* Datagrams the simulator (or another sender) may put on the wire: the    *)
(* plaintexts below, encrypted under either edition's key.                 *)
(***************************************************************************)
Plain(size, hdr, rpm, pid) ==
    [size |-> size, seed |-> <<0, 0, 0, 0>>, hdr |-> hdr,
     rpm |-> <<rpm, 0, 0, 0>>, pid |-> <<pid, 0, 0, 0>>]

\* what the sender does: the seed travels in clear at 0x40, the rest is xored
Encrypt(p, seed, gt7) ==
    [Salsa20_xor(p, Nonce(seed), gt7) EXCEPT !.seed = seed]

Plaintexts ==
    { Plain(16, Tag0S7G, 1, 1),                 \* shorter than 0x44
      Plain(68, Tag0S7G, 1, 1),                 \* header only, body too short
      Plain(296, Tag0S7G, 1, 1),                \* complete for "A"
      Plain(316, TagG6S0, 2, 2),                \* complete for "A" and "B", big-endian
      Plain(324, Tag0S7G, 3, 3),                \* complete for every variant
      Plain(324, <<88, 88, 88, 88>>, 1, 2),     \* ASCII, not a tag
      Plain(324, <<200, 83, 55, 71>>, 2, 1) }   \* not ASCII

Datagrams ==
    { Encrypt(p, <<7, 0, 0, 1>>, g) : p \in Plaintexts, g \in {TRUE} }

(***************************************************************************)
(* SpanReader (models/helpers.py) and the decode path of the client.       *)
(***************************************************************************)
\* struct.unpack_from("<i" / ">i", view, position): four bytes as a signed int
Int32(b, order) ==
    LET le == IF order = "little" THEN b ELSE <<b[4], b[3], b[2], b[1]>>
        top == IF le[4] >= 128 THEN le[4] - 256 ELSE le[4]
    IN  le[1] + (256 * le[2]) + (65536 * le[3]) + (16777216 * top)

\* SpanReader.read_int32
read_int32(b, order) == Int32(b, order)

\* SpanReader.read_single: the float is kept by its 32-bit pattern
read_single(b, order) == Int32(b, order)

\* message[:4].decode("ascii") raises on a byte above 0x7f
header_decodes(m) == \A i \in 1..HeaderLen : m.hdr[i] < 128

\* a header check that lets every ASCII header through
header_any(m) == TRUE

\* a header check that knows only the little-endian tag
header_only_0S7G(m) == m.hdr = Tag0S7G

\* header in ["0S7G", "G6S0"]
header_recognised(m) == m.hdr \in {Tag0S7G, TagG6S0}

\* a reader that is little-endian whatever the header
byte_order_little(m) == "little"

\* SpanReader(message, "little") for "0S7G", SpanReader(message, "big") otherwise
byte_order(m) == IF m.hdr = Tag0S7G THEN "little" ELSE "big"

\* the bytes _parse_telemetry reads from the body for heartbeat type hb
body_size(hb) ==
    CASE hb = "A" -> BaseBodySize
      [] hb = "B" -> BaseBodySize + TrailerBSize
      [] hb = "~" -> BaseBodySize + TrailerTildeSize

\* struct.unpack_from raises struct.error when the buffer ends before the field
parse_raises(m, hb) == m.size - HeaderLen < body_size(hb)

\* Telemetry(**telemetry_data), kept by two of its fields
parse_frame(m) ==
    [engine_rpm |-> read_single(m.rpm, byte_order(m)),
     packet_id  |-> read_int32(m.pid, byte_order(m))]

\* what _handle_data does with a datagram: "reject" (return before parsing),
\* "raise" (struct.error leaves _parse_telemetry) or "frame"
handle_outcome(c, gt7, hb) ==
    IF decrypt_raises(c) THEN "reject"
    ELSE LET m == decrypt(c, gt7)
         IN  IF ~header_decodes(m) THEN "reject"
             ELSE IF ~header_recognised(m) THEN "reject"
             ELSE IF parse_raises(m, hb) THEN "raise"
             ELSE "frame"

\* handle_outcome and decrypt for every datagram and edition, computed once
OutcomeOf ==
    [c \in Datagrams, g \in BOOLEAN, hb \in HeartbeatTypes |-> handle_outcome(c, g, hb)]

FrameOf ==
    [c \in Datagrams, g \in BOOLEAN |->
        IF decrypt_raises(c) THEN NoObj ELSE parse_frame(decrypt(c, g))]

\* a datagram the sender built, under the key of edition g, from a plaintext that
\* carries a tag and a body of the layout of heartbeat type hb
WellFormed(c, g, hb) ==
    \E p \in Plaintexts :
        /\ c = Encrypt(p, c.seed, g)
        /\ p.hdr \in {Tag0S7G, TagG6S0}
        /\ p.size >= SeedEnd
        /\ p.size - HeaderLen >= body_size(hb)

\* the first four decrypted bytes of every datagram long enough to decrypt
HeaderOf ==
    [c \in Datagrams, g \in BOOLEAN |->
        IF decrypt_raises(c) THEN <<>> ELSE decrypt(c, g).hdr]

WellFormedOf ==
    [c \in Datagrams, g \in BOOLEAN, hb \in HeartbeatTypes |-> WellFormed(c, g, hb)]

(***************************************************************************)
(* State of one TurismoClient and of the threads that use it.              *)
(***************************************************************************)
VARIABLES
    is_gt7,                   \* PDEncyption.is_gt7
    heartbeat_type,           \* self.heartbeat_type
    _telem,                   \* self._telem: None or a reference into heap
    _telem_lock,              \* self._telem_lock: "free" or the holder
    heap,                     \* the Telemetry objects: reference -> fields
    _telem_update_callbacks,  \* the dict, as its entry array (insertion order)
    work_queue,               \* ThreadPoolExecutor._work_queue
    workers,                  \* the pool's worker threads
    ing,                      \* the ingestion path: position in _handle_data
    ndata,                    \* datagrams delivered so far
    outcome,                  \* how the last _handle_data call ended
    rdr,                      \* the reader thread: position in the getter
    ngets,                    \* getter calls completed
    nregops,                  \* register / deregister calls completed
    nwrites,                  \* field writes by the reader on frames it was returned
    cb_writes,                \* field writes by callbacks on the frame they received
    error_log,                \* logger.error calls of the callback runners: count, last
    set_values,               \* frames passed to the setter (reference, fields)
    entry_telem,              \* self._telem when the last _handle_data call began
    last_good,                \* the last datagram delivered that was a complete frame
    session,                  \* the session: loop thread, token, the two loops, stop()
    ctor,                     \* a constructor call: its arguments and how it ended
    calc,                     \* a call of a function of the models: arguments, result
    collaborators             \* DriverEvents / RaceEvents / TurismoGame constructor calls

vars == <<is_gt7, heartbeat_type, _telem, _telem_lock, heap,
          _telem_update_callbacks, work_queue, workers, ing, ndata, outcome,
          rdr, ngets, nregops, nwrites, cb_writes, error_log, set_values,
          entry_telem, last_good, session, ctor, calc,
          collaborators>>

FrameIds == 1..MaxDatagrams
CopyIds == (MaxDatagrams + 1)..(MaxDatagrams + MaxGets)
ObjIds == FrameIds \cup CopyIds
WorkerIds == 1..max_callback_workers
NoData == [size |-> 0]
NoIter == [used |-> 0, len |-> 0, pos |-> 0]
NoTask == [fn |-> None, cb |-> None, frame |-> NoRef, args |-> None]
NoSub == [cb \in Callbacks \cup {_state_tracker(cls) : cls \in CollaboratorClasses} |-> 0]

\* a client on which neither start() nor run() has been called: the loop thread
\* object exists (line 59), the token is None (line 31), the pool is up
NewSession ==
    [thread |-> "new", token |-> None, hb |-> "none", ls |-> "none",
     sock |-> "none", pool |-> "up", stop |-> "none", run |-> "none",
     nsent |-> 0, slept |-> 0, waited |-> 0, sends |-> {}]

\* what __init__ creates once the address is resolved, lines 55-67
Resources == {"crypto", "lock", "loop_thread", "executor", "registry"}

\* the status code of a discovery reply from a console on standby
StandbyCode == 620

\* a constructor call that has returned a client
Constructed ==
    [pc |-> "done", ps_ip |-> None,
     reply |-> [ip |-> "192.168.1.10", type |-> "PS5", code |-> 200],
     result |-> "ok", created |-> Resources, ip_addr |-> "192.168.1.10"]

\* line 57-67 of __init__: no frame, an empty registry, an idle pool
FreshClient ==
    /\ _telem = NoRef
    /\ _telem_lock = "free"
    /\ heap = [o \in ObjIds |-> NoObj]
    /\ _telem_update_callbacks = <<>>
    /\ work_queue = <<>>
    /\ workers = [w \in WorkerIds |-> [st |-> "idle", task |-> NoTask]]
    /\ ing = [pc |-> "idle", data |-> NoData, value |-> NoRef, it |-> NoIter,
              stable |-> {}, reg0 |-> {}, sub |-> NoSub]
    /\ ndata = 0
    /\ outcome = "none"
    /\ rdr = [pc |-> "idle", src |-> NoRef, cpy |-> NoRef, ret |-> Unset, at |-> Unset,
              held |-> {}]
    /\ ngets = 0
    /\ nregops = 0
    /\ nwrites = 0
    /\ cb_writes = 0
    /\ error_log = [n |-> 0, cb |-> None, frame |-> NoRef]
    /\ set_values = {}
    /\ entry_telem = NoRef
    /\ last_good = NoData
    /\ session = NewSession
    /\ collaborators = <<>>

\* no function call under way
NoCalc == [op |-> None, arg |-> None, st |-> "none", out |-> None]

Init ==
    /\ is_gt7 \in BOOLEAN
    /\ heartbeat_type \in HeartbeatTypes
    /\ FreshClient
    /\ ctor = Constructed
    /\ calc = NoCalc

(***************************************************************************)
(* Construction: the import of turismo_client, then TurismoClient.__init__ *)
(***************************************************************************)
\* what answers the discovery broadcast within the timeout: nothing, or a
\* console that is awake (200) or on standby (620)
NoReply == [ip |-> None, type |-> None, code |-> 0]
Replies ==
    {NoReply} \cup [ip : {"192.168.1.10"}, type : {"PS4", "PS5"}, code : {200, StandbyCode}]

\* _get_host_type: the host type, with the word STANDBY appended for code 620
_get_host_type(reply) ==
    IF reply.code = StandbyCode THEN <<reply.type, "STANDBY">> ELSE <<reply.type>>

\* get_ps_ip_type: (None, None) on timeout, else the sender and its host type;
\* the host type is kept as its words, and None as no words
get_ps_ip_type(reply) ==
    IF reply = NoReply THEN <<None, <<>> >> ELSE <<reply.ip, _get_host_type(reply)>>

\* the names turismo_client imports from playstation_errors, lines 8-9, and
\* the classes that module defines
ImportedErrors == {"PlayStationNotFoundError", "PlayStatonOnStandbyError"}
DefinedErrors == {"PlayStationNotFoundError", "PlayStationOnStandbyError"}

\* the positional arguments of the call PDEncyption(is_gt7, heartbeat_type),
\* line 55, and the parameters of PDEncyption.__init__ after self
CryptoArguments == <<"is_gt7", "heartbeat_type">>
CryptoParameters == <<"is_gt7">>

\* the arguments the model constructs a client with
HeartbeatArguments == HeartbeatTypes \cup {"X"}
AddressArguments == {None, "10.0.0.7"}

\* how a constructor call ends
Failed(error, ip) == [result |-> error, created |-> {}, ip_addr |-> ip]

\* TurismoClient.__init__(is_gt7, ps_ip, heartbeat_type), lines 31-67 in order
init_outcome(gt7, ps_ip, hb, reply) ==
    LET found == get_ps_ip_type(reply)
        ip == IF found[1] # None THEN found[1] ELSE ps_ip
        ps == found[2]
    IN  IF hb \notin HeartbeatTypes
        THEN Failed("ValueError", None)
        ELSE IF ip = None
        THEN Failed("PlayStationNotFoundError", None)
        ELSE IF ps # <<>> /\ \E i \in DOMAIN ps : ps[i] = "STANDBY"
        THEN Failed("PlayStatonOnStandbyError", None)
        ELSE IF Len(CryptoArguments) > Len(CryptoParameters)
        THEN Failed("TypeError", ip)
        ELSE [result |-> "ok", created |-> Resources, ip_addr |-> ip]

\* from gt_telem.turismo_client import TurismoClient; TurismoClient(is_gt7,
\* ps_ip, heartbeat_type): the import of lines 8-9, then __init__
constructor_outcome(gt7, ps_ip, hb, reply) ==
    IF ~(ImportedErrors \subseteq DefinedErrors)
    THEN Failed("ImportError", None)
    ELSE init_outcome(gt7, ps_ip, hb, reply)

\* a program about to construct a client
InitBoot ==
    /\ is_gt7 \in BOOLEAN
    /\ heartbeat_type \in HeartbeatArguments
    /\ FreshClient
    /\ ctor \in [pc : {"boot"}, ps_ip : AddressArguments, reply : Replies,
                  result : {None}, created : {{}}, ip_addr : {None}]
    /\ calc = NoCalc

CtorUnchanged == UNCHANGED <<is_gt7, heartbeat_type, _telem, _telem_lock, heap,
                             _telem_update_callbacks, work_queue, workers, ing,
                             ndata, outcome, rdr, ngets, nregops, nwrites,
                             cb_writes, error_log, set_values, entry_telem,
                             last_good, session, calc,
          collaborators>>

\* the call has ended with outcome out
Ended_with(out) ==
    [ctor EXCEPT !.pc = "done", !.result = out.result,
                 !.created = out.created, !.ip_addr = out.ip_addr]

\* the program imports the module and calls the constructor
construct ==
    /\ ctor.pc = "boot"
    /\ ctor' = Ended_with(constructor_outcome(is_gt7, ctor.ps_ip, heartbeat_type,
                                              ctor.reply))
    /\ CtorUnchanged

SpecConstruct == InitBoot /\ [][construct]_vars

\* TurismoClient.__init__ is run on its arguments
client_init ==
    /\ ctor.pc = "boot"
    /\ ctor' = Ended_with(init_outcome(is_gt7, ctor.ps_ip, heartbeat_type, ctor.reply))
    /\ CtorUnchanged

SpecInit == InitBoot /\ [][client_init]_vars

(***************************************************************************)
(* The dict self._telem_update_callbacks.  CPython keeps the entries in    *)
(* insertion order; pop leaves a dead entry, a new key is appended, and an *)
(* existing key keeps its place.                                           *)
(***************************************************************************)
LiveIdx(d) == {i \in DOMAIN d : d[i].live}
dict_len(d) == Cardinality(LiveIdx(d))
dict_keys(d) == {d[i].cb : i \in LiveIdx(d)}
dict_index(d, cb) == CHOOSE i \in LiveIdx(d) : d[i].cb = cb

\* d[cb] = args
dict_setitem(d, cb, args) ==
    IF cb \in dict_keys(d)
    THEN [d EXCEPT ![dict_index(d, cb)].args = args]
    ELSE Append(d, [cb |-> cb, args |-> args, live |-> TRUE])

\* d.pop(cb), for a key that is present
dict_pop(d, cb) == [d EXCEPT ![dict_index(d, cb)].live = FALSE]

\* the first live entry at or after position pos, 0 when there is none
dict_next(d, pos) ==
    IF \E i \in LiveIdx(d) : i >= pos
    THEN CHOOSE i \in LiveIdx(d) : i >= pos /\ \A j \in LiveIdx(d) : j >= pos => i <= j
    ELSE 0

(***************************************************************************)
(* The ingestion path: datagram_received -> _handle_data ->                *)
(* _parse_telemetry -> telemetry setter -> _invoke_callbacks.              *)
(***************************************************************************)
IngUnchanged == UNCHANGED <<is_gt7, heartbeat_type, rdr, ngets, nregops, nwrites,
                            cb_writes, error_log, workers, session, ctor, calc,
          collaborators>>

\* _handle_data(data) up to the call of the setter: decrypt, header, parse
_handle_data(c) ==
    /\ ing.pc = "idle"
    /\ ndata < MaxDatagrams
    /\ ndata' = ndata + 1
    /\ entry_telem' = _telem
    /\ last_good' = IF WellFormedOf[c, is_gt7, heartbeat_type] THEN c ELSE last_good
    /\ LET out == OutcomeOf[c, is_gt7, heartbeat_type]
           id  == ndata + 1
       IN  CASE out = "reject" ->
                  /\ ing' = [ing EXCEPT !.data = c, !.sub = NoSub, !.stable = {},
                                        !.reg0 = {}]
                  /\ outcome' = "returned"
                  /\ UNCHANGED <<heap, set_values>>
             [] out = "raise" ->
                  /\ ing' = [ing EXCEPT !.data = c, !.sub = NoSub, !.stable = {},
                                        !.reg0 = {}]
                  /\ outcome' = "struct.error"
                  /\ UNCHANGED <<heap, set_values>>
             [] out = "frame" ->
                  /\ heap' = [heap EXCEPT ![id] = FrameOf[c, is_gt7]]
                  /\ ing' = [ing EXCEPT !.pc = "store", !.data = c, !.value = id,
                                        !.sub = NoSub, !.stable = {}, !.reg0 = {}]
                  /\ outcome' = "running"
                  /\ set_values' = set_values \cup {<<id, heap'[id]>>}
    /\ UNCHANGED <<_telem, _telem_lock, _telem_update_callbacks, work_queue>>
    /\ IngUnchanged

\* a setter that writes the new frame's fields into the stored object, one field
\* at a time and without taking the lock
telemetry_setter_inplace ==
    /\ ing.pc = "store"
    /\ IF _telem = NoRef
       THEN /\ _telem' = ing.value
            /\ ing' = [ing EXCEPT !.pc = "check"]
            /\ UNCHANGED heap
       ELSE LET diff == {i \in DOMAIN Fields :
                            heap[_telem][Fields[i]] # heap[ing.value][Fields[i]]}
            IN  IF diff = {}
                THEN /\ ing' = [ing EXCEPT !.pc = "check"]
                     /\ UNCHANGED <<_telem, heap>>
                ELSE LET i == CHOOSE i \in diff : \A j \in diff : i <= j
                     IN  /\ heap' = [heap EXCEPT ![_telem][Fields[i]] =
                                                    heap[ing.value][Fields[i]]]
                         /\ UNCHANGED <<_telem, ing>>
    /\ UNCHANGED <<_telem_lock, _telem_update_callbacks, work_queue, ndata,
                   outcome, set_values, entry_telem, last_good>>
    /\ IngUnchanged

\* a setter that keeps the first frame it was given
telemetry_setter_keep_first ==
    /\ ing.pc = "store"
    /\ _telem_lock = "free"
    /\ _telem' = IF _telem = NoRef THEN ing.value ELSE _telem
    /\ ing' = [ing EXCEPT !.pc = "check"]
    /\ UNCHANGED <<_telem_lock, heap, _telem_update_callbacks, work_queue, ndata,
                   outcome, set_values, entry_telem, last_good>>
    /\ IngUnchanged

\* setter, lines 92-93: with self._telem_lock: self._telem = value
telemetry_setter_store ==
    /\ ing.pc = "store"
    /\ _telem_lock = "free"
    /\ _telem' = ing.value
    /\ ing' = [ing EXCEPT !.pc = "check"]
    /\ UNCHANGED <<_telem_lock, heap, _telem_update_callbacks, work_queue, ndata,
                   outcome, set_values, entry_telem, last_good>>
    /\ IngUnchanged

\* setter, line 96: if self._telem_update_callbacks: and, when it is not empty,
\* line 249: the for statement creates the iterator of .items()
telemetry_setter_check ==
    /\ ing.pc = "check"
    /\ IF dict_len(_telem_update_callbacks) = 0
       THEN /\ ing' = [ing EXCEPT !.pc = "idle"]
            /\ outcome' = "returned"
       ELSE /\ ing' = [ing EXCEPT !.pc = "next",
                          !.it = [used |-> dict_len(_telem_update_callbacks),
                                  len  |-> dict_len(_telem_update_callbacks),
                                  pos  |-> 1],
                          !.stable = dict_keys(_telem_update_callbacks),
                          !.reg0 = dict_keys(_telem_update_callbacks)]
            /\ UNCHANGED outcome
    /\ UNCHANGED <<_telem, _telem_lock, heap, _telem_update_callbacks, work_queue,
                   ndata, set_values, entry_telem, last_good>>
    /\ IngUnchanged

\* the function submitted for a callback, lines 251-256
runner(cb) ==
    IF iscoroutinefunction(cb) THEN "_run_async_callback"
    ELSE "_run_sync_callback_threaded"

\* ThreadPoolExecutor.submit: the work item is put on the unbounded queue
executor_submit(q, task) == Append(q, task)

\* a dispatch that hands out the frame the store held when the datagram arrived
telemetry_value_previous == entry_telem

\* the telemetry_value argument of _invoke_callbacks: the frame the setter was
\* given and has just stored
telemetry_value == ing.value

\* one turn of the for loop: the iterator's next, then the submit of the body.
\* The iterator raises RuntimeError when the dict changed size or when more
\* entries turn up than it had when it was created.
dispatch_step ==
    /\ ing.pc = "next"
    /\ LET d == _telem_update_callbacks
           i == dict_next(d, ing.it.pos)
       IN  IF ing.it.used # dict_len(d) \/ (i # 0 /\ ing.it.len = 0)
           THEN /\ ing' = [ing EXCEPT !.pc = "idle"]
                /\ outcome' = "RuntimeError"
                /\ UNCHANGED work_queue
           ELSE IF i = 0
           THEN /\ ing' = [ing EXCEPT !.pc = "idle"]
                /\ outcome' = "returned"
                /\ UNCHANGED work_queue
           ELSE /\ ing' = [ing EXCEPT !.it.pos = i + 1, !.it.len = @ - 1,
                                      !.sub[d[i].cb] = @ + 1]
                /\ work_queue' = executor_submit(work_queue,
                        [fn |-> runner(d[i].cb), cb |-> d[i].cb,
                         frame |-> telemetry_value, args |-> d[i].args])
                /\ UNCHANGED outcome
    /\ UNCHANGED <<_telem, _telem_lock, heap, _telem_update_callbacks, ndata,
                   set_values, entry_telem, last_good>>
    /\ IngUnchanged

\* a dispatch that waits for the work it submitted before it goes on: it takes
\* its next turn only once the queue is empty and every worker is idle
_invoke_callbacks_waiting ==
    /\ work_queue = <<>>
    /\ \A w \in DOMAIN workers : workers[w].st = "idle"
    /\ dispatch_step

\* _invoke_callbacks, lines 249-258
_invoke_callbacks == dispatch_step

(***************************************************************************)
(* The callback registry, called from any thread.                          *)
(***************************************************************************)
RegUnchanged == UNCHANGED <<is_gt7, heartbeat_type, _telem, _telem_lock, heap,
                            work_queue, workers, ndata, outcome, rdr, ngets,
                            nwrites, cb_writes, error_log, set_values, entry_telem,
                            last_good, session, ctor, calc,
          collaborators>>

\* register_callback, line 131
register_callback(cb, args) ==
    /\ nregops < MaxRegOps
    /\ nregops' = nregops + 1
    /\ _telem_update_callbacks' = dict_setitem(_telem_update_callbacks, cb, args)
    /\ UNCHANGED ing
    /\ RegUnchanged

\* deregister_callback, line 140; pop of an absent key raises KeyError to the
\* caller and leaves the dict as it was
deregister_callback(cb) ==
    /\ nregops < MaxRegOps
    /\ nregops' = nregops + 1
    /\ IF cb \in dict_keys(_telem_update_callbacks)
       THEN /\ _telem_update_callbacks' = dict_pop(_telem_update_callbacks, cb)
            /\ ing' = [ing EXCEPT !.stable = @ \ {cb}]
       ELSE UNCHANGED <<_telem_update_callbacks, ing>>
    /\ RegUnchanged

\* the methods of TurismoClient a collaborator's constructor may call
ClientMethods == {"register_callback", "deregister_callback", "telemetry", "start",
                  "stop", "run", "run_async"}

\* the method each constructor calls to attach its instance
attach_method(cls) == IF cls = "TurismoGame" THEN "add_callback" ELSE "register_callback"

\* DriverEvents(tc), RaceEvents(tc) or TurismoGame(tc), between two datagrams:
\* the constructor hands the class's static _state_tracker and [self] to the
\* client (a name the client does not define raises AttributeError) and keeps
\* what the getter returned
collaborator_init(cls, self) ==
    /\ Len(collaborators) < MaxCollaborators
    /\ ing.pc = "idle"
    /\ rdr.pc = "idle"
    /\ \A i \in DOMAIN collaborators : collaborators[i].self # self
    /\ IF attach_method(cls) \in ClientMethods
       THEN /\ _telem_update_callbacks' =
                   dict_setitem(_telem_update_callbacks, _state_tracker(cls), self)
            /\ collaborators' = Append(collaborators,
                   [cls |-> cls, self |-> self, result |-> "ok", last |-> _telem,
                    at |-> ndata])
       ELSE /\ UNCHANGED _telem_update_callbacks
            /\ collaborators' = Append(collaborators,
                   [cls |-> cls, self |-> self, result |-> "AttributeError",
                    last |-> _telem, at |-> ndata])
    /\ UNCHANGED <<is_gt7, heartbeat_type, _telem, _telem_lock, heap, work_queue,
                   workers, ing, ndata, outcome, rdr, ngets, nregops, nwrites,
                   cb_writes, error_log, set_values, entry_telem, last_good, session,
                   ctor, calc>>

\* the instances user code creates: two per class
Instances == {"a", "b"}

\* collaborators are attached to a client, datagrams are ingested and the frames
\* dispatched; what is submitted stays queued
NextAttach ==
    \/ \E cls \in CollaboratorClasses, self \in Instances :
           collaborator_init(cls, cls \o "#" \o self)
    \/ \E c \in Datagrams : _handle_data(c)
    \/ telemetry_setter_store
    \/ telemetry_setter_check
    \/ _invoke_callbacks

SpecAttach == Init /\ [][NextAttach]_vars

(***************************************************************************)
(* The telemetry getter, lines 77-81, on a reader thread.                  *)
(***************************************************************************)
RdrUnchanged == UNCHANGED <<is_gt7, heartbeat_type, _telem, _telem_update_callbacks,
                            work_queue, workers, ing, ndata, outcome, nregops,
                            nwrites, cb_writes, error_log, set_values, entry_telem,
                            last_good, session, ctor, calc,
          collaborators>>

\* when a getter call begins: the number of datagrams handled, or Unset when a
\* _handle_data call is under way
CallEpoch == IF ing.pc = "idle" THEN ndata ELSE Unset

\* line 77-78: if not self._telem: return None (read without the lock)
telemetry_getter_check ==
    /\ rdr.pc = "idle"
    /\ ngets < MaxGets
    /\ IF _telem = NoRef
       THEN /\ rdr' = [rdr EXCEPT !.ret = NoRef, !.at = CallEpoch]
            /\ ngets' = ngets + 1
       ELSE /\ rdr' = [rdr EXCEPT !.pc = "lock", !.at = CallEpoch]
            /\ UNCHANGED ngets
    /\ UNCHANGED <<_telem_lock, heap>>
    /\ RdrUnchanged

\* the object copy.deepcopy reads its fields from: the argument self._telem,
\* evaluated once when the call begins
deepcopy_source(src) == src

\* line 79-80: the lock is taken, self._telem is evaluated and deepcopy begins:
\* a new object receives the first field
telemetry_getter_lock ==
    /\ rdr.pc = "lock"
    /\ _telem_lock = "free"
    /\ _telem_lock' = "reader"
    /\ LET new == MaxDatagrams + ngets + 1
           f   == Fields[1]
       IN  /\ rdr' = [rdr EXCEPT !.pc = "copy", !.src = _telem, !.cpy = new]
           /\ heap' = [heap EXCEPT ![new] = [g \in {f} |-> heap[_telem][g]]]
    /\ UNCHANGED ngets
    /\ RdrUnchanged

\* a getter that hands out the stored object itself
getter_result_alias(src, cpy) == src

\* line 81: return cpy
getter_result(src, cpy) == cpy

\* line 80-81: deepcopy copies the remaining field, the lock is released and
\* the copy is returned
telemetry_getter_copy ==
    /\ rdr.pc = "copy"
    /\ _telem_lock' = "free"
    /\ LET f == Fields[2]
           o == deepcopy_source(rdr.src)
       IN  heap' = [heap EXCEPT ![rdr.cpy] =
                        [g \in DOMAIN heap[rdr.cpy] \cup {f} |->
                            IF g = f THEN heap[o][f] ELSE heap[rdr.cpy][g]]]
    /\ rdr' = [rdr EXCEPT !.pc = "idle", !.ret = getter_result(rdr.src, rdr.cpy),
                          !.held = @ \cup {getter_result(rdr.src, rdr.cpy)},
                          !.src = NoRef, !.cpy = NoRef]
    /\ ngets' = ngets + 1
    /\ RdrUnchanged

(***************************************************************************)
(* The worker threads of the ThreadPoolExecutor and the callback runners.  *)
(***************************************************************************)
PoolUnchanged == UNCHANGED <<is_gt7, heartbeat_type, _telem, _telem_lock, heap,
                             _telem_update_callbacks, ing, ndata, outcome, rdr,
                             ngets, nregops, nwrites, cb_writes, set_values,
                             entry_telem, last_good, session, ctor, calc,
          collaborators>>

\* a pool that runs one work item at a time: no worker takes work while another
\* is inside a callback
worker_can_take_serial(w) ==
    /\ workers[w].st = "idle"
    /\ work_queue # <<>>
    /\ \A v \in DOMAIN workers : workers[v].st = "idle"
    /\ \A v \in DOMAIN workers : v < w => workers[v].st # "idle"

\* an idle worker thread takes the oldest work item; the threads are alike, so
\* the idle thread of lowest number stands for whichever wakes up
worker_can_take(w) ==
    /\ workers[w].st = "idle"
    /\ work_queue # <<>>
    /\ \A v \in WorkerIds : v < w => workers[v].st # "idle"

\* _worker: work_queue.get(), then work_item.run() calls the runner
worker_take(w) ==
    /\ worker_can_take(w)
    /\ workers' = [workers EXCEPT ![w] = [st |-> "running", task |-> Head(work_queue)]]
    /\ work_queue' = Tail(work_queue)
    /\ UNCHANGED error_log
    /\ PoolUnchanged

\* the worker once the callback has returned
after_return(w) == [workers EXCEPT ![w] = [st |-> "idle", task |-> NoTask]]

\* a runner without the except clause: the exception ends the worker thread
after_raise_dead(w) == [workers EXCEPT ![w].st = "dead"]

\* the worker once the callback has raised: except Exception catches, logs, and
\* the runner returns to the worker loop
after_raise(w) == [workers EXCEPT ![w] = [st |-> "idle", task |-> NoTask]]

\* self.logger.error(f"Error in ... callback {callback.__name__}: {e}")
log_error(task) == [n |-> error_log.n + 1, cb |-> task.cb, frame |-> task.frame]

\* _run_sync_callback_threaded, lines 281-287: the callback returns or raises
_run_sync_callback_threaded(w) ==
    /\ workers[w].st = "running"
    /\ workers[w].task.fn = "_run_sync_callback_threaded"
    /\ \/ /\ workers' = after_return(w)
          /\ UNCHANGED error_log
       \/ /\ workers' = after_raise(w)
          /\ error_log' = log_error(workers[w].task)
    /\ UNCHANGED work_queue
    /\ PoolUnchanged

\* _run_async_callback, lines 264-275: run_until_complete returns or raises
_run_async_callback(w) ==
    /\ workers[w].st = "running"
    /\ workers[w].task.fn = "_run_async_callback"
    /\ \/ /\ workers' = after_return(w)
          /\ UNCHANGED error_log
       \/ /\ workers' = after_raise(w)
          /\ error_log' = log_error(workers[w].task)
    /\ UNCHANGED work_queue
    /\ PoolUnchanged

\* a callback that never returns: its worker thread stays inside the call
callback_blocks(w) ==
    /\ workers[w].st = "running"
    /\ workers' = [workers EXCEPT ![w].st = "blocked"]
    /\ UNCHANGED <<work_queue, error_log>>
    /\ PoolUnchanged

\* the collaborator instance a work item was registered for (args is [self])
context_of(task) ==
    CHOOSE i \in DOMAIN collaborators : collaborators[i].self = task.args

\* DriverEvents._state_tracker / RaceEvents._state_tracker on a worker thread, up
\* to its first listener: `if not self.last: self.last = t; return`, otherwise
\* the comparisons of t with self.last begin and the listeners are called
tracker_enter(w) ==
    /\ workers[w].st = "running"
    /\ workers[w].task.cb \in {_state_tracker("DriverEvents"), _state_tracker("RaceEvents")}
    /\ LET i == context_of(workers[w].task)
       IN  IF collaborators[i].last = NoRef
           THEN /\ collaborators' = [collaborators EXCEPT ![i].last = workers[w].task.frame]
                /\ workers' = after_return(w)
           ELSE /\ workers' = [workers EXCEPT ![w].st = "listeners"]
                /\ UNCHANGED collaborators
    /\ UNCHANGED <<is_gt7, heartbeat_type, _telem, _telem_lock, heap,
                   _telem_update_callbacks, work_queue, ing, ndata, outcome, rdr,
                   ngets, nregops, nwrites, cb_writes, error_log, set_values,
                   entry_telem, last_good, session, ctor, calc>>

\* the listeners have returned: the last statement, self.last = t
tracker_exit(w) ==
    /\ workers[w].st = "listeners"
    /\ collaborators' = [collaborators EXCEPT
                             ![context_of(workers[w].task)].last = workers[w].task.frame]
    /\ workers' = after_return(w)
    /\ UNCHANGED <<is_gt7, heartbeat_type, _telem, _telem_lock, heap,
                   _telem_update_callbacks, work_queue, ing, ndata, outcome, rdr,
                   ngets, nregops, nwrites, cb_writes, error_log, set_values,
                   entry_telem, last_good, session, ctor, calc>>

\* one DriverEvents and one RaceEvents instance on a client, the frames that are
\* ingested and the tracker runs on the pool's workers
NextTrackers ==
    \/ \E cls \in {"DriverEvents", "RaceEvents"} : collaborator_init(cls, cls \o "#a")
    \/ \E c \in Datagrams : _handle_data(c)
    \/ telemetry_setter_store
    \/ telemetry_setter_check
    \/ _invoke_callbacks
    \/ \E w \in WorkerIds : worker_take(w)
    \/ \E w \in WorkerIds : tracker_enter(w)
    \/ \E w \in WorkerIds : tracker_exit(w)

SpecTrackers == Init /\ [][NextTrackers]_vars

(***************************************************************************)
(* The state trackers called with one frame after the other, each call     *)
(* ending before the next begins. The instance is collaborators[1], its    *)
(* frames are kept by value; calc holds the last call and what it fired.   *)
(***************************************************************************)
TrackerUnchanged == UNCHANGED <<is_gt7, heartbeat_type, _telem, _telem_lock, heap,
                                work_queue, workers, ing, ndata, outcome, rdr, ngets,
                                nregops, nwrites, cb_writes, error_log, set_values,
                                entry_telem, last_good, session, ctor>>

\* frames as DriverEvents reads them: the rpm against two alert thresholds, the
\* gear and the brake vary
DriverFrames ==
    { [engine_rpm |-> r, min_alert_rpm |-> 4, max_alert_rpm |-> 9, current_gear |-> g,
       suggested_gear |-> 15, high_beams |-> FALSE, hand_brake_active |-> FALSE,
       tcs_active |-> FALSE, asm_active |-> FALSE, rev_limit |-> FALSE, brake |-> b,
       throttle |-> 0] : r \in {0, 5, 10}, g \in {1, 2}, b \in {0, 1} }

\* DriverEvents(tc) on a client whose telemetry getter returns t0 (None is NoObj)
DriverEvents_init(t0) ==
    /\ collaborators = <<>>
    /\ calc = NoCalc
    /\ _telem_update_callbacks' =
           dict_setitem(_telem_update_callbacks, _state_tracker("DriverEvents"),
                        "DriverEvents#a")
    /\ collaborators' = <<[cls |-> "DriverEvents", self |-> "DriverEvents#a",
                           result |-> "ok", last |-> t0, calls |-> 0,
                           above_min_alert_rpm |-> FALSE,
                           above_max_alert_rpm |-> FALSE]>>
    /\ UNCHANGED calc
    /\ TrackerUnchanged

\* DriverEvents._state_tracker(t, context): the listeners of the events in out
\* are called, in the order of the code
DriverEvents_state_tracker(t) ==
    /\ Len(collaborators) = 1
    /\ collaborators[1].cls = "DriverEvents"
    /\ collaborators[1].calls < MaxFrames
    /\ LET self == collaborators[1]
       IN  IF self.last = NoObj
           THEN /\ collaborators' = <<[self EXCEPT !.last = t, !.calls = @ + 1]>>
                /\ calc' = [op |-> "DriverEvents._state_tracker", arg |-> t,
                            st |-> "return", out |-> {}]
           ELSE LET last == self.last
                    low == t.engine_rpm > t.min_alert_rpm /\ ~self.above_min_alert_rpm
                    high == t.engine_rpm > t.max_alert_rpm /\ ~self.above_max_alert_rpm
                    fired ==
                        (IF last.current_gear # t.current_gear THEN {"on_gear_change"} ELSE {})
                        \cup (IF ~last.high_beams /\ t.high_beams
                              THEN {"on_flash_lights"} ELSE {})
                        \cup (IF ~last.hand_brake_active /\ t.hand_brake_active
                              THEN {"on_handbrake"} ELSE {})
                        \cup (IF last.suggested_gear # t.suggested_gear
                              THEN {"on_suggested_gear"} ELSE {})
                        \cup (IF last.tcs_active # t.tcs_active THEN {"on_tcs"} ELSE {})
                        \cup (IF last.asm_active # t.asm_active THEN {"on_asm"} ELSE {})
                        \cup (IF last.rev_limit # t.rev_limit THEN {"on_rev_limit"} ELSE {})
                        \cup (IF last.brake = 0 /\ t.brake > 0 THEN {"on_brake"} ELSE {})
                        \cup (IF last.throttle = 0 /\ t.throttle > 0
                              THEN {"on_throttle"} ELSE {})
                        \cup (IF low THEN {"on_shift_light_low"} ELSE {})
                        \cup (IF high THEN {"on_shift_light_high"} ELSE {})
                IN  /\ collaborators' =
                           <<[self EXCEPT !.last = t, !.calls = @ + 1,
                                          !.above_min_alert_rpm =
                                              t.engine_rpm > t.min_alert_rpm,
                                          !.above_max_alert_rpm =
                                              t.engine_rpm > t.max_alert_rpm]>>
                    /\ calc' = [op |-> "DriverEvents._state_tracker", arg |-> t,
                                st |-> "return", out |-> fired]
    /\ UNCHANGED _telem_update_callbacks
    /\ TrackerUnchanged

NextDriver ==
    \/ \E t0 \in DriverFrames \cup {NoObj} : DriverEvents_init(t0)
    \/ \E t \in DriverFrames : DriverEvents_state_tracker(t)

SpecDriver == Init /\ [][NextDriver]_vars

\* frames as RaceEvents reads them
RaceFrames ==
    { [current_lap |-> l, total_laps |-> n, best_lap_time |-> b, last_lap_time |-> 0] :
          l \in 0..2, n \in 0..1, b \in {0, 7} }

\* RaceEvents(tc) on a client whose telemetry getter returns t0; log is the
\* record a pair of on_race_start / on_race_finish listeners would keep
RaceEvents_init(t0) ==
    /\ collaborators = <<>>
    /\ calc = NoCalc
    /\ _telem_update_callbacks' =
           dict_setitem(_telem_update_callbacks, _state_tracker("RaceEvents"),
                        "RaceEvents#a")
    /\ collaborators' = <<[cls |-> "RaceEvents", self |-> "RaceEvents#a",
                           result |-> "ok", last |-> t0, calls |-> 0,
                           race_running |-> FALSE, log |-> <<>>, runs |-> <<>>]>>
    /\ UNCHANGED calc
    /\ TrackerUnchanged

\* the test of on_race_finish
race_finish(race_running, t) == race_running /\ t.total_laps + 1 = t.current_lap

\* RaceEvents._state_tracker(t, context); out is the sequence of events whose
\* listeners are called
RaceEvents_state_tracker(t) ==
    /\ Len(collaborators) = 1
    /\ collaborators[1].cls = "RaceEvents"
    /\ collaborators[1].calls < MaxFrames
    /\ collaborators[1].runs = <<>>
    /\ LET self == collaborators[1]
       IN  IF self.last = NoObj
           THEN /\ collaborators' = <<[self EXCEPT !.last = t, !.calls = @ + 1]>>
                /\ calc' = [op |-> "RaceEvents._state_tracker", arg |-> t,
                            st |-> "return", out |-> <<>>]
           ELSE LET last == self.last
                    started == last.current_lap = 0 /\ t.current_lap = 1
                    running == started \/ self.race_running
                    finished == race_finish(running, t)
                    races == (IF started THEN <<"on_race_start">> ELSE <<>>)
                             \o (IF finished THEN <<"on_race_finish">> ELSE <<>>)
                    fired ==
                        races
                        \o (IF last.current_lap # t.current_lap
                            THEN <<"on_lap_change">> ELSE <<>>)
                        \o (IF last.best_lap_time # t.best_lap_time
                            THEN <<"on_best_lap_time">> ELSE <<>>)
                        \o (IF last.last_lap_time # t.last_lap_time
                            THEN <<"on_last_lap_time">> ELSE <<>>)
                IN  /\ collaborators' =
                           <<[self EXCEPT !.last = t, !.calls = @ + 1,
                                          !.race_running = running /\ ~finished,
                                          !.log = @ \o races]>>
                    /\ calc' = [op |-> "RaceEvents._state_tracker", arg |-> t,
                                st |-> "return", out |-> fired]
    /\ UNCHANGED _telem_update_callbacks
    /\ TrackerUnchanged

NextRace ==
    \/ \E t0 \in RaceFrames \cup {NoObj} : RaceEvents_init(t0)
    \/ \E t \in RaceFrames : RaceEvents_state_tracker(t)

SpecRace == Init /\ [][NextRace]_vars

\* the client hands the frame to the pool and a free worker begins the run of
\* RaceEvents._state_tracker for it: runs holds the runs in progress, each at
\* the line it executes next
RaceEvents_submit(t) ==
    /\ Len(collaborators) = 1
    /\ collaborators[1].cls = "RaceEvents"
    /\ collaborators[1].calls < MaxFrames
    /\ Len(collaborators[1].runs) < max_callback_workers
    /\ collaborators' = <<[collaborators[1] EXCEPT
                              !.calls = @ + 1,
                              !.runs = Append(@, [t |-> t, pc |-> "63"])]>>
    /\ UNCHANGED <<calc, _telem_update_callbacks>>
    /\ TrackerUnchanged

\* one statement of run i of RaceEvents._state_tracker, by line of the source
RaceEvents_run(i) ==
    /\ Len(collaborators) = 1
    /\ collaborators[1].cls = "RaceEvents"
    /\ i \in 1..Len(collaborators[1].runs)
    /\ LET self == collaborators[1]
           t == self.runs[i].t
           pc == self.runs[i].pc
           goto(line) == [self EXCEPT !.runs[i].pc = line]
           return(obj) ==
               [obj EXCEPT !.runs = SubSeq(@, 1, i - 1) \o SubSeq(@, i + 1, Len(@))]
       IN  collaborators' =
               <<CASE pc = "63" -> goto(IF self.last = NoObj THEN "64" ELSE "66")
                   [] pc = "64" -> return([self EXCEPT !.last = t])
                   [] pc = "66" ->
                        goto(IF self.last.current_lap = 0 /\ t.current_lap = 1
                             THEN "67" ELSE "69")
                   [] pc = "67" ->
                        [goto("69") EXCEPT !.race_running = TRUE,
                                           !.log = Append(@, "on_race_start")]
                   [] pc = "69" ->
                        goto(IF race_finish(self.race_running, t) THEN "70" ELSE "72")
                   [] pc = "70" ->
                        [goto("72") EXCEPT !.race_running = FALSE,
                                           !.log = Append(@, "on_race_finish")]
                   [] pc = "72" -> return([self EXCEPT !.last = t])>>
    /\ UNCHANGED <<calc, _telem_update_callbacks>>
    /\ TrackerUnchanged

NextRacePool ==
    \/ \E t0 \in RaceFrames \cup {NoObj} : RaceEvents_init(t0)
    \/ \E t \in RaceFrames : RaceEvents_submit(t)
    \/ \E i \in 1..max_callback_workers : RaceEvents_run(i)

SpecRacePool == Init /\ [][NextRacePool]_vars

GameState ==
    {"NOT_RUNNING", "RUNNING", "IN_MENU", "AT_TRACK", "IN_RACE", "PAUSED", "END_RACE"}

\* frames as TurismoGame reads them
GameFrames ==
    { [cars_on_track |-> c, is_paused |-> p, is_loading |-> l, current_lap |-> n,
       engine_rpm |-> r, time_of_day_ms |-> 5] :
          c \in BOOLEAN, p \in BOOLEAN, l \in BOOLEAN, n \in {-1, 0}, r \in {1, 2} }

\* TurismoGame.__init__ up to the registration: the fields of the instance;
\* engine_rpm is no attribute yet (NoObj). The registration is collaborator_init.
TurismoGame_init(t0) ==
    /\ collaborators = <<>>
    /\ calc = NoCalc
    /\ collaborators' = <<[cls |-> "TurismoGame", self |-> "TurismoGame#a",
                           result |-> "ok", game_state |-> "NOT_RUNNING",
                           check_next |-> 0,
                           tod |-> IF t0 # NoObj THEN t0.time_of_day_ms ELSE 0,
                           engine_rpm |-> NoObj]>>
    /\ UNCHANGED <<calc, _telem_update_callbacks>>
    /\ TrackerUnchanged

\* the states _change_state is called with, in order, by each case of the match
case_RUNNING(t) ==
    IF t.cars_on_track
    THEN (IF t.is_paused THEN <<"PAUSED">> ELSE <<>>)
         \o (IF t.current_lap = -1 THEN <<"END_RACE">> ELSE <<"IN_RACE">>)
    ELSE IF t.current_lap > -1 THEN <<"AT_TRACK">> ELSE <<"IN_MENU">>

case_IN_MENU(t) == IF t.current_lap > -1 THEN <<"AT_TRACK">> ELSE <<>>

case_AT_TRACK(t) ==
    IF t.cars_on_track THEN <<"IN_RACE">>
    ELSE IF t.current_lap = -1 THEN <<"IN_MENU">> ELSE <<>>

case_IN_RACE(t) ==
    IF t.is_paused THEN <<"PAUSED">>
    ELSE IF t.current_lap = -1 THEN <<"END_RACE">> ELSE <<>>

\* an END_RACE case that goes back to the menu
case_END_RACE_menu(t) == IF ~t.is_loading THEN <<"IN_MENU">> ELSE <<>>

case_END_RACE(t) == IF ~t.is_loading THEN <<"AT_TRACK">> ELSE <<>>

\* a comparison that takes equal rpm for a resumed race
resumed_equal(t, engine_rpm) == <<t.engine_rpm>> = engine_rpm

\* t.engine_rpm != self.engine_rpm
resumed(t, engine_rpm) == <<t.engine_rpm>> # engine_rpm

\* TurismoGame._state_tracker(t, context); out is the sequence of states
\* _change_state was called with, each call firing the listeners of its state
TurismoGame_state_tracker(t) ==
    /\ Len(collaborators) = 1
    /\ collaborators[1].cls = "TurismoGame"
    /\ LET self == collaborators[1]
           first == IF self.game_state = "NOT_RUNNING" THEN <<"RUNNING">> ELSE <<>>
           state == IF self.game_state = "NOT_RUNNING" THEN "RUNNING"
                    ELSE self.game_state
           done(changes, check_next, engine_rpm) ==
               /\ collaborators' =
                      <<[self EXCEPT !.game_state = IF changes = <<>> THEN @
                                                    ELSE changes[Len(changes)],
                                     !.check_next = check_next,
                                     !.engine_rpm = engine_rpm]>>
               /\ calc' = [op |-> "TurismoGame._state_tracker", arg |-> t,
                           st |-> "return", out |-> changes]
       IN  IF t = NoObj
           THEN IF self.game_state = "NOT_RUNNING"
                THEN done(<<>>, self.check_next, self.engine_rpm)
                ELSE /\ calc' = [op |-> "TurismoGame._state_tracker", arg |-> t,
                                 st |-> "raise", out |-> "AttributeError"]
                     /\ UNCHANGED collaborators
           ELSE CASE state = "RUNNING" ->
                       done(first \o case_RUNNING(t), self.check_next, self.engine_rpm)
                  [] state = "IN_MENU" ->
                       done(case_IN_MENU(t), self.check_next, self.engine_rpm)
                  [] state = "AT_TRACK" ->
                       done(case_AT_TRACK(t), self.check_next, self.engine_rpm)
                  [] state = "IN_RACE" ->
                       done(case_IN_RACE(t), self.check_next, self.engine_rpm)
                  [] state = "END_RACE" ->
                       done(case_END_RACE(t), self.check_next, self.engine_rpm)
                  [] state = "PAUSED" ->
                       IF t.is_paused
                       THEN done(<<>>, self.check_next, self.engine_rpm)
                       ELSE IF self.check_next = 0
                       THEN done(<<>>, 2, self.engine_rpm)
                       ELSE IF self.check_next > 1
                       THEN done(<<>>, self.check_next - 1, <<t.engine_rpm>>)
                       ELSE IF self.engine_rpm = NoObj
                       THEN /\ collaborators' = <<[self EXCEPT !.check_next = 0]>>
                            /\ calc' = [op |-> "TurismoGame._state_tracker", arg |-> t,
                                        st |-> "raise", out |-> "AttributeError"]
                       ELSE done(IF resumed(t, self.engine_rpm) THEN <<"IN_RACE">>
                                 ELSE <<"END_RACE">>, 0, self.engine_rpm)
    /\ UNCHANGED _telem_update_callbacks
    /\ TrackerUnchanged

NextGame ==
    \/ \E t0 \in GameFrames \cup {NoObj} : TurismoGame_init(t0)
    \/ \E t \in GameFrames \cup {NoObj} : TurismoGame_state_tracker(t)

SpecGame == Init /\ [][NextGame]_vars

\* PROBABILITY_THRESHOLD, in percent
PROBABILITY_THRESHOLD == 95

\* 999999.9, the bound the box starts from; coordinates are in tenths of a metre
FarTenths == 9999999

\* frames as TrackDetector reads them; position is (x, z)
TrackFrames ==
    { [is_loading |-> l, is_paused |-> p, cars_on_track |-> c, current_lap |-> n,
       position |-> <<x, z>>] :
          l \in BOOLEAN, p \in BOOLEAN, c \in BOOLEAN, n \in 1..2,
          x \in {-10, 25}, z \in {0, 30} }

\* what find_matching_track returns for the accumulated box and the last
\* segment: no match, or a best match (iou in 1/10000, TRACK of the table row);
\* a segment of length 0 crosses no line and matches nothing
Matches ==
    {<<>>} \cup { <<[probability |-> q, track |-> k]>> : q \in {9400, 9600}, k \in {0, 7, 8} }

\* round(probability * 100, 1), in tenths of a percent
probability_percentage(probability) == (probability + 5) \div 10

\* `self.track_id` as a condition: None and 0 are false
held(track_id) == track_id # NoObj /\ track_id # <<0>>

\* TrackDetector.__init__
TrackDetector_init ==
    /\ collaborators = <<>>
    /\ calc = NoCalc
    /\ collaborators' = <<[cls |-> "TrackDetector", self |-> "TrackDetector#a",
                           result |-> "ok", track_id |-> NoObj, _old_xyz |-> NoObj,
                           _maxX |-> -FarTenths, _maxY |-> -FarTenths,
                           _minX |-> FarTenths, _minY |-> FarTenths]>>
    /\ UNCHANGED <<calc, _telem_update_callbacks>>
    /\ TrackerUnchanged

Max(a, b) == IF a >= b THEN a ELSE b

Min(a, b) == IF a <= b THEN a ELSE b

\* TrackDetector._detect_track(telemetry): the instance after the call, with
\* track_id set to the value returned (detect_track, line 35)
_detect_track(self, telemetry, matches) ==
    IF ~telemetry.cars_on_track
    THEN [self EXCEPT !._old_xyz = NoObj, !._maxX = -FarTenths, !._maxY = -FarTenths,
                      !._minX = FarTenths, !._minY = FarTenths, !.track_id = NoObj]
    ELSE LET new_xyz == telemetry.position
             found == /\ telemetry.current_lap > 1
                      /\ self._old_xyz # NoObj
                      /\ new_xyz # self._old_xyz
                      /\ matches # <<>>
                      /\ probability_percentage(matches[1].probability)
                             >= PROBABILITY_THRESHOLD * 10
         IN  [self EXCEPT !._maxX = Max(@, new_xyz[1]), !._minX = Min(@, new_xyz[1]),
                          !._maxY = Max(@, new_xyz[2]), !._minY = Min(@, new_xyz[2]),
                          !._old_xyz = new_xyz,
                          !.track_id = IF found THEN <<matches[1].track>> ELSE NoObj]

\* TrackDetector.detect_track(telemetry); out is the id returned
detect_track(telemetry, matches) ==
    /\ Len(collaborators) = 1
    /\ collaborators[1].cls = "TrackDetector"
    /\ LET self == collaborators[1]
           next == IF telemetry.is_loading \/ telemetry.is_paused THEN self
                   ELSE IF held(self.track_id) /\ telemetry.cars_on_track THEN self
                   ELSE _detect_track(self, telemetry, matches)
       IN  /\ collaborators' = <<next>>
           /\ calc' = [op |-> "detect_track", arg |-> telemetry, st |-> "return",
                       out |-> next.track_id]
    /\ UNCHANGED _telem_update_callbacks
    /\ TrackerUnchanged

NextDetector ==
    \/ TrackDetector_init
    \/ \E t \in TrackFrames, matches \in Matches : detect_track(t, matches)

SpecDetector == Init /\ [][NextDetector]_vars

(***************************************************************************)
(* The session: start / stop / run / run_async and the two loops           *)
(* _send_heartbeat and _listen.                                            *)
(***************************************************************************)
SessUnchanged == UNCHANGED <<is_gt7, heartbeat_type, _telem, _telem_lock, heap,
                             _telem_update_callbacks, work_queue, workers, ing,
                             ndata, outcome, rdr, ngets, nregops, nwrites,
                             cb_writes, error_log, set_values, entry_telem,
                             last_good, ctor, calc,
          collaborators>>

\* heartbeat_type.encode('ascii'): the one byte of "A", "B" or "~"
encode_ascii(hb) ==
    CASE hb = "A" -> 65
      [] hb = "B" -> 66
      [] hb = "~" -> 126

\* self.RECEIVE_PORT after line 52-53
ReceivePort == IF is_gt7 THEN RECEIVE_PORT + GT7PortShift ELSE RECEIVE_PORT

\* a counter of the model that stops at MaxHeartbeats
Counted(n) == IF n < MaxHeartbeats THEN n + 1 ELSE n

\* the positions at which a loop has ended
Ended == {"done", "raised", "cancelled"}

\* the event loop is running the tasks
LoopRunning == session.thread = "running" \/ session.run = "forever"

\* the parameters of ThreadPoolExecutor.shutdown and the keywords of the call
\* at line 149
ShutdownParameters == {"wait", "cancel_futures"}
ShutdownKeywords == {"wait", "timeout"}

\* start(), line 143: the loop thread is started
start ==
    /\ session.thread = "new"
    /\ session.run = "none"
    /\ session' = [session EXCEPT !.thread = "started"]
    /\ SessUnchanged

\* the loop thread: _run_forever_threaded, then run_async lines 190-197: the
\* token is created and both tasks are created and awaited
run_async_begin ==
    /\ session.thread = "started"
    /\ session' = [session EXCEPT !.thread = "running", !.token = "clear",
                                  !.hb = "check", !.ls = "bind"]
    /\ SessUnchanged

\* run(), lines 167-174: the token, both tasks, then loop.run_forever()
run_begin ==
    /\ session.thread = "new"
    /\ session.run = "none"
    /\ session' = [session EXCEPT !.run = "forever", !.token = "clear",
                                  !.hb = "check", !.ls = "bind"]
    /\ SessUnchanged

\* the caller of run() sets the cancellation token it passed
cancel ==
    /\ session.run = "forever"
    /\ session.token = "clear"
    /\ session' = [session EXCEPT !.token = "set"]
    /\ SessUnchanged

\* _send_heartbeat, line 211: while not self._cancellation_token.is_set()
heartbeat_check ==
    /\ LoopRunning
    /\ session.hb = "check"
    /\ session' = [session EXCEPT
                      !.hb = IF session.token = "set" THEN "done" ELSE "send"]
    /\ SessUnchanged

\* lines 212-214: a socket is made, the byte is sent and the socket is closed;
\* socket() or sendto() can raise OSError, which nothing in the loop catches
heartbeat_send ==
    /\ LoopRunning
    /\ session.hb = "send"
    /\ \/ session' = [session EXCEPT
                        !.hb = "sleep",
                        !.nsent = Counted(@),
                        !.waited = 0,
                        !.sends = @ \cup {[byte |-> encode_ascii(heartbeat_type),
                                           ip |-> ctor.ip_addr,
                                           port |-> ReceivePort,
                                           after |-> session.waited,
                                           first |-> session.nsent = 0]}]
       \/ session' = [session EXCEPT !.hb = "raised"]
    /\ SessUnchanged

\* line 215: await asyncio.sleep(10)
heartbeat_sleep ==
    /\ LoopRunning
    /\ session.hb = "sleep"
    /\ session' = [session EXCEPT !.hb = "check", !.slept = Counted(@),
                                  !.waited = HeartbeatPeriod]
    /\ SessUnchanged

\* _listen, lines 234-237: the datagram endpoint is bound, or the bind raises
listen_bind ==
    /\ LoopRunning
    /\ session.ls = "bind"
    /\ \/ session' = [session EXCEPT !.ls = "wait", !.sock = "open"]
       \/ session' = [session EXCEPT !.ls = "raised"]
    /\ SessUnchanged

\* lines 238-240: the token's wait() returns once it is set; the socket is closed
listen_wake ==
    /\ LoopRunning
    /\ session.ls = "wait"
    /\ session.token = "set"
    /\ session' = [session EXCEPT !.ls = "done", !.sock = "closed"]
    /\ SessUnchanged

\* run_async, lines 197-203: gather returns when both tasks have returned, and
\* the loop thread ends
gather_returns ==
    /\ session.thread = "running"
    /\ session.hb = "done"
    /\ session.ls = "done"
    /\ session' = [session EXCEPT !.thread = "ended"]
    /\ SessUnchanged

\* line 197: gather re-raises the exception of a task; run_async has no except
\* clause for it, and asyncio.run cancels the task that is left and closes the
\* loop; the listener is cancelled at its await, before line 240
gather_raises ==
    /\ session.thread = "running"
    /\ session.hb = "raised" \/ session.ls = "raised"
    /\ session' = [session EXCEPT
                      !.thread = "failed",
                      !.hb = IF @ \in Ended THEN @ ELSE "cancelled",
                      !.ls = IF @ \in Ended THEN @ ELSE "cancelled",
                      !.sock = IF @ = "open" THEN "unclosed" ELSE @]
    /\ SessUnchanged

\* stop(), line 146: self._cancellation_token.set(); the attribute is None
\* until the loop thread has run line 190
stop_set ==
    /\ session.stop = "none"
    /\ session.run = "none"
    /\ session.thread # "new"
    /\ session' = IF session.token = None
                  THEN [session EXCEPT !.stop = "AttributeError"]
                  ELSE [session EXCEPT !.stop = "join", !.token = "set"]
    /\ SessUnchanged

\* line 147: self._loop_thread.join()
stop_join ==
    /\ session.stop = "join"
    /\ session.thread \in {"ended", "failed"}
    /\ session' = [session EXCEPT !.stop = "shutdown"]
    /\ SessUnchanged

\* line 149: self._callback_executor.shutdown(wait=True, timeout=5.0); a keyword
\* that is no parameter of shutdown raises TypeError before anything is done;
\* shutdown(wait=True) itself returns when every work item has finished
stop_shutdown ==
    /\ session.stop = "shutdown"
    /\ IF ShutdownKeywords \subseteq ShutdownParameters
       THEN /\ work_queue = <<>>
            /\ \A w \in WorkerIds : workers[w].st = "idle"
            /\ session' = [session EXCEPT !.stop = "returned", !.pool = "shutdown"]
       ELSE session' = [session EXCEPT !.stop = "TypeError"]
    /\ SessUnchanged

\* run(), lines 175-181: KeyboardInterrupt ends run_forever; the token is set
\* and the loop is closed
keyboard_interrupt ==
    /\ session.run = "forever"
    /\ session' = [session EXCEPT !.run = "returned", !.token = "set"]
    /\ SessUnchanged

\* what the event loop does for the two tasks
loop_step ==
    \/ heartbeat_check
    \/ heartbeat_send
    \/ heartbeat_sleep
    \/ listen_bind
    \/ listen_wake

\* the session alone: no datagram arrives
NextSession ==
    \/ start
    \/ run_async_begin
    \/ run_begin
    \/ cancel
    \/ heartbeat_check
    \/ heartbeat_send
    \/ heartbeat_sleep
    \/ listen_bind
    \/ listen_wake
    \/ gather_returns
    \/ gather_raises
    \/ stop_set
    \/ stop_join
    \/ stop_shutdown
    \/ keyboard_interrupt

SpecSession == Init /\ [][NextSession]_vars

(***************************************************************************)
(* Calls of the functions of net/crypto.py and of the models package on    *)
(* arguments drawn from small sets: calc holds the call, then its result.  *)
(***************************************************************************)
CalcUnchanged == UNCHANGED <<is_gt7, heartbeat_type, _telem, _telem_lock, heap,
                             _telem_update_callbacks, work_queue, workers, ing,
                             ndata, outcome, rdr, ngets, nregops, nwrites,
                             cb_writes, error_log, set_values, entry_telem,
                             last_good, session, ctor, collaborators>>

\* a call of op on arg that has not run yet, and how it ends
Call(op, arg) == [op |-> op, arg |-> arg, st |-> "call", out |-> None]
Return(v) == [calc EXCEPT !.st = "return", !.out = v]
Raise(e) == [calc EXCEPT !.st = "raise", !.out = e]

\* ciphertexts handed to decrypt: lengths around 0x44 and seeds of every kind
SeedValues ==
    { <<0, 0, 0, 0>>, <<255, 255, 255, 255>>, <<175, 190, 173, 222>>,
      <<7, 0, 0, 1>>, <<1, 2, 3, 4>>, <<0, 0, 0, 128>> }
CiphertextSizes == {0, 16, 64, 65, 67, 68, 69, 296, 324}
Ciphertexts ==
    { [size |-> n, seed |-> sd, hdr |-> Tag0S7G, rpm |-> <<1, 0, 0, 0>>,
       pid |-> <<1, 0, 0, 0>>] : n \in CiphertextSizes, sd \in SeedValues }

\* PDEncyption(is_gt7).decrypt(ciphertext): the nonce it builds and what it returns
decrypt_call ==
    /\ calc.op = "decrypt"
    /\ calc.st = "call"
    /\ calc' = IF decrypt_raises(calc.arg)
               THEN Raise("struct.error")
               ELSE Return([iv |-> Nonce(calc.arg.seed),
                            plaintext |-> decrypt(calc.arg, is_gt7)])
    /\ CalcUnchanged

\* a formatted string, kept by its layout and the numbers printed in it; the
\* value None is the layout "None" with nothing printed
Text(layout, parts) == [layout |-> layout, parts |-> parts]
NoneValue == Text("None", <<>>)

\* helpers.format_time: max(0, int(ms)), divmod by 60000 and by 1000
format_time(milliseconds) ==
    LET ms == IF milliseconds < 0 THEN 0 ELSE milliseconds
    IN  Text("MM:SS.sss", <<ms \div 60000, (ms % 60000) \div 1000, (ms % 60000) % 1000>>)

\* helpers.format_time_of_day: divmod by 3600000, 60000, 1000; what is left below
\* a second is not printed; the branch taken when use_24hr is true prints
\* hours % 12 or 12 and the suffix, the other branch prints the hours as they are
format_time_of_day(milliseconds, use_24hr) ==
    LET ms == IF milliseconds < 0 THEN 0 ELSE milliseconds
        hours == ms \div 3600000
        minutes == (ms % 3600000) \div 60000
        seconds == ((ms % 3600000) % 60000) \div 1000
    IN  IF use_24hr
        THEN Text(IF hours < 12 THEN "HH:MM:SS AM" ELSE "HH:MM:SS PM",
                  <<IF hours % 12 = 0 THEN 12 ELSE hours % 12, minutes, seconds>>)
        ELSE Text("HH:MM:SS", <<hours, minutes, seconds>>)

\* an accessor that formats the sentinel like any other value
best_lap_time_unguarded(t) == format_time(t.best_lap_time_ms)

\* Telemetry.best_lap_time / last_lap_time / time_of_day
best_lap_time(t) ==
    IF t.best_lap_time_ms = -1 THEN NoneValue ELSE format_time(t.best_lap_time_ms)
last_lap_time(t) ==
    IF t.last_lap_time_ms = -1 THEN NoneValue ELSE format_time(t.last_lap_time_ms)
time_of_day(t) ==
    IF t.time_of_day_ms = -1 THEN NoneValue ELSE format_time_of_day(t.time_of_day_ms, FALSE)

\* values of the three int32 millisecond fields, and the frames that carry them
TimeValues ==
    {-1, 0, 1, 999, 1000, 59999, 60000, 61001, 3599999, 3600000, 5999999,
     6000000, 86399999, 2147483647}
TimedFrames ==
    { [best_lap_time_ms |-> a, last_lap_time_ms |-> b, time_of_day_ms |-> c] :
        a \in TimeValues, b \in {-1, 61001}, c \in TimeValues }

\* one of the three time accessors is read on a frame
time_call ==
    /\ calc.op \in {"best_lap_time", "last_lap_time", "time_of_day"}
    /\ calc.st = "call"
    /\ calc' = Return([frame |-> calc.arg,
                       value |-> CASE calc.op = "best_lap_time" -> best_lap_time(calc.arg)
                                   [] calc.op = "last_lap_time" -> last_lap_time(calc.arg)
                                   [] calc.op = "time_of_day" -> time_of_day(calc.arg)])
    /\ CalcUnchanged

\* arguments of format_time_of_day: around the hour, noon and midnight marks
FormatInputs ==
    {-5, 0, 1, 59999, 3599999, 3600000, 43199999, 43200000, 46800000, 86399999, 90000000}

\* helpers.format_time_of_day(milliseconds, use_24hr)
format_time_of_day_call ==
    /\ calc.op = "format_time_of_day"
    /\ calc.st = "call"
    /\ calc' = Return(format_time_of_day(calc.arg.milliseconds, calc.arg.use_24hr))
    /\ CalcUnchanged

\* a & b on two non-negative integers below 2^n
RECURSIVE AndBits(_, _, _)
AndBits(a, b, n) ==
    IF n = 0 THEN 0
    ELSE ((a % 2) * (b % 2)) + (2 * AndBits(a \div 2, b \div 2, n - 1))

\* 1 << k
RECURSIVE Shl1(_)
Shl1(k) == IF k = 0 THEN 1 ELSE 2 * Shl1(k - 1)

\* SpanReader.read_int16: two bytes as a signed integer
read_int16(b, order) ==
    LET le == IF order = "little" THEN b ELSE <<b[2], b[1]>>
    IN  le[1] + (256 * (IF le[2] >= 128 THEN le[2] - 256 ELSE le[2]))

\* the sixteen flag properties of Telemetry and the shift each one uses
FlagShift ==
    [cars_on_track |-> 0, is_paused |-> 1, is_loading |-> 2, in_gear |-> 3,
     has_turbo |-> 4, rev_limit |-> 5, hand_brake_active |-> 6, lights_active |-> 7,
     high_beams |-> 8, low_beams |-> 9, asm_active |-> 10, tcs_active |-> 11,
     unknown_bool_1 |-> 12, unknown_bool_2 |-> 13, unknown_bool_3 |-> 14,
     unknown_bool_4 |-> 15]

\* bool(1<<k & self.flags); Python's & sees a negative int in two's complement
flag(name, t) ==
    AndBits(Shl1(FlagShift[name]), t.flags % 65536, 16) # 0

\* a gear accessor with a five-bit mask
current_gear_wide(t) == AndBits(t.bits, 31, 8)

\* Telemetry.current_gear: self.bits & 0b1111
current_gear(t) == AndBits(t.bits, 15, 8)

\* Telemetry.suggested_gear: self.bits >> 4
suggested_gear(t) == t.bits \div 16

\* the two bytes of the flags field and the byte of the bits field on the wire
FlagBytes == {<<lo, hi>> : lo \in 0..255, hi \in {0, 1, 2, 64, 127, 128, 170, 255}}
BitsBytes == 0..255

\* the flags field is decoded and the sixteen accessors are read
flags_call ==
    /\ calc.op = "flags"
    /\ calc.st = "call"
    /\ LET t == [flags |-> read_int16(calc.arg.bytes, calc.arg.order)]
       IN  calc' = Return([flags |-> t.flags,
                           value |-> [n \in DOMAIN FlagShift |-> flag(n, t)]])
    /\ CalcUnchanged

\* the bits field is decoded (read_byte) and the two gear accessors are read
gears_call ==
    /\ calc.op = "gears"
    /\ calc.st = "call"
    /\ LET t == [bits |-> calc.arg]
       IN  calc' = Return([current_gear |-> current_gear(t),
                           suggested_gear |-> suggested_gear(t)])
    /\ CalcUnchanged

\* the trailer fields of heartbeat "B" and of heartbeat "~", in the order read
TrailerB == <<"wheel_rotation_radians", "filler_float_fb", "sway", "heave", "surge">>
TrailerTilde == <<"throttle_filtered", "brake_filtered", "unk_tilde_1", "unk_tilde_2",
                  "energy_recovery", "unk_tilde_3">>

\* a parse that reads both trailers whenever the session asked for one
trailer_data_both(tail, order, hb) ==
    IF hb = "A" THEN <<>>
    ELSE [n \in {TrailerB[i] : i \in 1..5} \cup {TrailerTilde[i] : i \in 1..6} |-> <<0>>]

\* the entries _parse_telemetry adds to telemetry_data after car_code, read from
\* the bytes that follow it; a value v is kept as <<v>>
trailer_data(tail, order, hb) ==
    LET single(p) == <<read_single(SubSeq(tail, p + 1, p + 4), order)>>
        byte(p) == <<tail[p + 1]>>
    IN  CASE hb = "B" ->
                 [n \in {TrailerB[i] : i \in 1..5} |->
                     single(4 * ((CHOOSE i \in 1..5 : TrailerB[i] = n) - 1))]
          [] hb = "~" ->
                 [n \in {TrailerTilde[i] : i \in 1..6} |->
                     LET i == CHOOSE j \in 1..6 : TrailerTilde[j] = n
                     IN  IF i <= 4 THEN byte(i - 1)
                         ELSE single(4 + 16 + (4 * (i - 5)))]
          [] OTHER -> <<>>

\* the trailer fields of Telemetry(**telemetry_data): a field that is not given
\* keeps its default None, kept as <<>>
Telemetry_trailer(data) ==
    [n \in {TrailerB[i] : i \in 1..5} \cup {TrailerTilde[i] : i \in 1..6} |->
        IF n \in DOMAIN data THEN data[n] ELSE <<>>]

\* what follows car_code in a message: nothing, or up to a whole "~" trailer
Tails ==
    { [i \in 1..n |-> (i * k) % 256] :
          n \in {0, TrailerBSize - 1, TrailerBSize, TrailerTildeSize - 1, TrailerTildeSize},
          k \in {0, 1, 7} }

\* _parse_telemetry from the end of the base body on, for the session's heartbeat
parse_call ==
    /\ calc.op = "parse"
    /\ calc.st = "call"
    /\ calc' = IF BaseBodySize + Len(calc.arg.tail) < body_size(heartbeat_type)
               THEN Raise("struct.error")
               ELSE Return(Telemetry_trailer(
                        trailer_data(calc.arg.tail, calc.arg.order, heartbeat_type)))
    /\ CalcUnchanged

\* a position accessor that reads the velocity fields
position_of_velocity(t) == <<t.velocity_x, t.velocity_y, t.velocity_z>>

\* Telemetry.position and Telemetry.velocity: Vector3D is a named tuple (x, y, z)
position(t) == <<t.position_x, t.position_y, t.position_z>>
velocity(t) == <<t.velocity_x, t.velocity_y, t.velocity_z>>

\* frames by their six raw position and velocity fields and one other field
VectorFrames ==
    [{"position_x", "position_y", "position_z", "velocity_x", "velocity_y",
      "velocity_z", "engine_rpm"} -> {-1, 2}]

\* both vector accessors are read on a frame
vectors_call ==
    /\ calc.op = "vectors"
    /\ calc.st = "call"
    /\ calc' = Return([position |-> position(calc.arg), velocity |-> velocity(calc.arg)])
    /\ CalcUnchanged

\* the fields of TelemetryPacket in the order of the dataclass: the first
\* RequiredFields have no default, the trailer fields default to None
PacketFields ==
    <<"position_x", "position_y", "position_z", "velocity_x", "velocity_y",
      "velocity_z", "rotation_x", "rotation_y", "rotation_z", "orientation",
      "ang_vel_x", "ang_vel_y", "ang_vel_z", "body_height", "engine_rpm", "iv",
      "fuel_level", "fuel_capacity", "speed_mps", "boost_pressure", "oil_pressure",
      "water_temp", "oil_temp", "tire_fl_temp", "tire_fr_temp", "tire_rl_temp",
      "tire_rr_temp", "packet_id", "current_lap", "total_laps", "best_lap_time_ms",
      "last_lap_time_ms", "time_of_day_ms", "race_start_pos", "total_cars",
      "min_alert_rpm", "max_alert_rpm", "calc_max_speed", "flags", "bits",
      "throttle", "brake", "empty", "road_plane_x", "road_plane_y", "road_plane_z",
      "road_plane_dist", "wheel_fl_rps", "wheel_fr_rps", "wheel_rl_rps",
      "wheel_rr_rps", "tire_fl_radius", "tire_fr_radius", "tire_rl_radius",
      "tire_rr_radius", "tire_fl_sus_height", "tire_fr_sus_height",
      "tire_rl_sus_height", "tire_rr_sus_height", "unused1", "unused2", "unused3",
      "unused4", "unused5", "unused6", "unused7", "unused8", "clutch_pedal",
      "clutch_engagement", "trans_rpm", "trans_top_speed", "gear1", "gear2",
      "gear3", "gear4", "gear5", "gear6", "gear7", "gear8", "car_code",
      "wheel_rotation_radians", "filler_float_fb", "sway", "heave", "surge",
      "throttle_filtered", "brake_filtered", "unk_tilde_1", "unk_tilde_2",
      "energy_recovery", "unk_tilde_3">>
RequiredFields == 80

\* Python's `sub in x` on strings
contains(x, sub) ==
    \E i \in 1..(Len(x) - Len(sub) + 1) : SubSeq(x, i, i + Len(sub) - 1) = sub

\* a Telemetry frame: every field of the dataclass; None is kept as <<>>
attrs(t) == DOMAIN t

\* Telemetry.as_dict: the attributes whose name contains an ignored part are
\* removed, the derived values are added (speeds kept as speed_mps times 36 and
\* times 223694: tenths of km/h, 10^-5 mph)
as_dict(t) ==
    LET remove_keys ==
            {x \in attrs(t) :
                \E ignore \in {"_x", "_y", "_z", "flags", "bits", "empty", "unused",
                                "_fl", "_fr", "_rl", "_rr"} : contains(x, ignore)}
        added ==
            [position |-> position(t), velocity |-> velocity(t),
             angular_velocity |-> <<t.ang_vel_x, t.ang_vel_y, t.ang_vel_z>>,
             tire_temp |-> <<t.tire_fl_temp, t.tire_fr_temp, t.tire_rl_temp, t.tire_rr_temp>>,
             wheel_rps |-> <<t.wheel_fl_rps, t.wheel_fr_rps, t.wheel_rl_rps, t.wheel_rr_rps>>,
             tire_radius |-> <<t.tire_fl_radius, t.tire_fr_radius, t.tire_rl_radius,
                               t.tire_rr_radius>>,
             suspension_height |-> <<t.tire_fl_sus_height, t.tire_fr_sus_height,
                                     t.tire_rl_sus_height, t.tire_rr_sus_height>>,
             current_gear |-> current_gear(t), suggested_gear |-> suggested_gear(t),
             speed_kph |-> t.speed_mps * 36, speed_mph |-> t.speed_mps * 223694,
             best_lap_time |-> best_lap_time(t), last_lap_time |-> last_lap_time(t),
             time_of_day |-> time_of_day(t)]
        flags == [n \in DOMAIN FlagShift |-> flag(n, t)]
        keys == (attrs(t) \cup DOMAIN added \cup DOMAIN flags) \ remove_keys
    IN  [n \in keys |-> IF n \in DOMAIN added THEN added[n]
                        ELSE IF n \in DOMAIN flags THEN flags[n] ELSE t[n]]

\* the keys from_dict pops without a default, in the order it pops them
PopOrder ==
    <<"position", "velocity", "rotation", "angular_velocity", "road_plane",
      "tire_temp", "wheel_rps", "tire_radius", "suspension_height",
      "suggested_gear", "current_gear", "speed_kph", "speed_mph", "best_lap_time",
      "last_lap_time", "time_of_day", "cars_on_track", "is_paused", "is_loading",
      "in_gear", "has_turbo", "rev_limit", "hand_brake_active", "lights_active",
      "high_beams", "low_beams", "asm_active", "tcs_active">>

\* Telemetry.from_dict(d): a pop of a missing key raises KeyError; the raw fields
\* are rebuilt and Telemetry(**d) raises TypeError on an unknown or a missing
\* required keyword
from_dict(d) ==
    LET missing == {i \in DOMAIN PopOrder : PopOrder[i] \notin DOMAIN d}
        fields == {PacketFields[i] : i \in DOMAIN PacketFields}
        required == {PacketFields[i] : i \in 1..RequiredFields}
        bool(n) == IF n \in DOMAIN d THEN d[n] ELSE FALSE
        bit(n, k) == IF bool(n) THEN Shl1(k) ELSE 0
        bit13 == IF bool("clutch_out") \/ bool("unknown_bool_2") THEN Shl1(13) ELSE 0
    IN  IF missing # {}
        THEN [st |-> "raise",
              out |-> "KeyError: " \o PopOrder[CHOOSE i \in missing : \A j \in missing : i <= j]]
        ELSE LET rebuilt ==
                     [position_x |-> d["position"][1], position_y |-> d["position"][2],
                      position_z |-> d["position"][3],
                      velocity_x |-> d["velocity"][1], velocity_y |-> d["velocity"][2],
                      velocity_z |-> d["velocity"][3],
                      rotation_x |-> d["rotation"][1], rotation_y |-> d["rotation"][2],
                      rotation_z |-> d["rotation"][3],
                      ang_vel_x |-> d["angular_velocity"][1],
                      ang_vel_y |-> d["angular_velocity"][2],
                      ang_vel_z |-> d["angular_velocity"][3],
                      road_plane_x |-> d["road_plane"][1], road_plane_y |-> d["road_plane"][2],
                      road_plane_z |-> d["road_plane"][3],
                      tire_fl_temp |-> d["tire_temp"][1], tire_fr_temp |-> d["tire_temp"][2],
                      tire_rl_temp |-> d["tire_temp"][3], tire_rr_temp |-> d["tire_temp"][4],
                      wheel_fl_rps |-> d["wheel_rps"][1], wheel_fr_rps |-> d["wheel_rps"][2],
                      wheel_rl_rps |-> d["wheel_rps"][3], wheel_rr_rps |-> d["wheel_rps"][4],
                      tire_fl_radius |-> d["tire_radius"][1],
                      tire_fr_radius |-> d["tire_radius"][2],
                      tire_rl_radius |-> d["tire_radius"][3],
                      tire_rr_radius |-> d["tire_radius"][4],
                      tire_fl_sus_height |-> d["suspension_height"][1],
                      tire_fr_sus_height |-> d["suspension_height"][2],
                      tire_rl_sus_height |-> d["suspension_height"][3],
                      tire_rr_sus_height |-> d["suspension_height"][4],
                      bits |-> (16 * AndBits(d["suggested_gear"], 15, 8))
                                   + AndBits(d["current_gear"], 15, 8),
                      empty |-> 0, unused1 |-> 0, unused2 |-> 0, unused3 |-> 0,
                      unused4 |-> 0, unused5 |-> 0, unused6 |-> 0, unused7 |-> 0,
                      unused8 |-> 0,
                      flags |-> bit("cars_on_track", 0) + bit("is_paused", 1)
                                    + bit("is_loading", 2) + bit("in_gear", 3)
                                    + bit("has_turbo", 4) + bit("rev_limit", 5)
                                    + bit("hand_brake_active", 6) + bit("lights_active", 7)
                                    + bit("high_beams", 8) + bit("low_beams", 9)
                                    + bit("asm_active", 10) + bit("tcs_active", 11)
                                    + bit("unknown_bool_1", 12) + bit13
                                    + bit("unknown_bool_3", 14) + bit("unknown_bool_4", 15)]
                 popped == {PopOrder[i] : i \in DOMAIN PopOrder}
                               \cup {"unknown_bool_1", "clutch_out", "unknown_bool_2",
                                     "unknown_bool_3", "unknown_bool_4"}
                 keys == (DOMAIN d \ popped) \cup DOMAIN rebuilt
             IN  IF ~(keys \subseteq fields) \/ ~(required \subseteq keys)
                 THEN [st |-> "raise", out |-> "TypeError"]
                 ELSE [st |-> "return",
                       out |-> [n \in fields |->
                                   IF n \in DOMAIN rebuilt THEN rebuilt[n]
                                   ELSE IF n \in keys THEN d[n] ELSE <<>>]]

\* frames for the round trip: raw field number i holds (i * k) % 5, the flags
\* and the gear byte are chosen, the trailer is that of heartbeat "A" or "B"
TelemetryFrames ==
    { [n \in {PacketFields[i] : i \in DOMAIN PacketFields} |->
          LET i == CHOOSE j \in DOMAIN PacketFields : PacketFields[j] = n
          IN  IF n = "flags" THEN f
              ELSE IF n = "bits" THEN b
              ELSE IF i <= RequiredFields THEN (i * k) % 5
              ELSE IF hb = "B" /\ \E j \in 1..5 : TrailerB[j] = n THEN <<i>>
              ELSE <<>>] :
        k \in 1..3, f \in {0, 1, 4095, -32768, -1}, b \in {0, 33, 255},
        hb \in {"A", "B"} }

\* Telemetry.from_dict(t.as_dict)
from_dict_call ==
    /\ calc.op = "from_dict"
    /\ calc.st = "call"
    /\ LET r == from_dict(as_dict(calc.arg))
       IN  calc' = [calc EXCEPT !.st = r.st, !.out = r.out]
    /\ CalcUnchanged

\* the SpanReader method _parse_telemetry calls for a field
reader_of(field) ==
    IF field \in
        {"packet_id", "best_lap_time_ms", "last_lap_time_ms", "time_of_day_ms",
         "unused1", "unused2", "unused3", "unused4", "unused5", "unused6",
         "unused7", "unused8", "car_code"}
    THEN "read_int32"
    ELSE IF field \in
        {"current_lap", "total_laps", "race_start_pos", "total_cars",
         "min_alert_rpm", "max_alert_rpm", "calc_max_speed", "flags"}
    THEN "read_int16"
    ELSE IF field \in
        {"bits", "throttle", "brake", "empty"}
    THEN "read_byte"
    ELSE "read_single"

\* a reader that takes four bytes for a 16-bit integer
width_wide(fn) == IF fn = "read_byte" THEN 1 ELSE 4

\* what each SpanReader method adds to self.position
width(fn) ==
    CASE fn = "read_int32" -> 4
      [] fn = "read_single" -> 4
      [] fn = "read_int16" -> 2
      [] fn = "read_byte" -> 1

\* the reads of _parse_telemetry in order, for heartbeat type hb: the base fields,
\* then the trailer; "~" reads four floats it does not keep
Reads(hb) ==
    [i \in 1..RequiredFields |-> [field |-> PacketFields[i], fn |-> reader_of(PacketFields[i])]]
    \o (CASE hb = "B" -> [i \in 1..5 |-> [field |-> TrailerB[i], fn |-> "read_single"]]
          [] hb = "~" ->
                 [i \in 1..4 |-> [field |-> TrailerTilde[i], fn |-> "read_byte"]]
                 \o [i \in 1..4 |-> [field |-> "", fn |-> "read_single"]]
                 \o [i \in 1..2 |-> [field |-> TrailerTilde[i + 4], fn |-> "read_single"]]
          [] OTHER -> <<>>)

\* self.position before read number k of reads
RECURSIVE position_before(_, _)
position_before(reads, k) ==
    IF k = 1 THEN 0 ELSE position_before(reads, k - 1) + width(reads[k - 1].fn)

\* body lengths handed to the parser: around the three layouts
BodySizes == {0, 3, 4, 291, 292, 293, 311, 312, 313, 319, 320, 321, 400}

\* _parse_telemetry on a body of calc.arg bytes: struct.unpack_from raises
\* struct.error when the buffer ends before position + width
decode_call ==
    /\ calc.op = "decode"
    /\ calc.st = "call"
    /\ LET reads == Reads(heartbeat_type)
           n == Len(reads)
           at == [k \in 1..(n + 1) |-> position_before(reads, k)]
       IN  calc' = IF \E k \in 1..n : at[k + 1] > calc.arg
                   THEN Raise("struct.error")
                   ELSE Return([position |-> at[n + 1],
                                reads |-> [k \in 1..n |->
                                              [field |-> reads[k].field, fn |-> reads[k].fn,
                                               at |-> at[k]]]])
    /\ CalcUnchanged

InitFunctions ==
    /\ FreshClient
    /\ ctor = Constructed
    /\ \/ /\ is_gt7 \in BOOLEAN
          /\ heartbeat_type = "A"
          /\ calc \in {Call("decrypt", c) : c \in Ciphertexts}
       \/ /\ is_gt7 = TRUE
          /\ heartbeat_type = "A"
          /\ calc \in {Call(op, t) : op \in {"best_lap_time", "last_lap_time", "time_of_day"},
                                     t \in TimedFrames}
       \/ /\ is_gt7 = TRUE
          /\ heartbeat_type = "A"
          /\ calc \in {Call("flags", [bytes |-> b, order |-> o]) :
                          b \in FlagBytes, o \in {"little", "big"}}
       \/ /\ is_gt7 = TRUE
          /\ heartbeat_type = "A"
          /\ calc \in {Call("gears", b) : b \in BitsBytes}
       \/ /\ is_gt7 = TRUE
          /\ heartbeat_type \in HeartbeatTypes
          /\ calc \in {Call("parse", [tail |-> t, order |-> o]) :
                          t \in Tails, o \in {"little", "big"}}
       \/ /\ is_gt7 = TRUE
          /\ heartbeat_type = "A"
          /\ calc \in {Call("vectors", t) : t \in VectorFrames}
       \/ /\ is_gt7 = TRUE
          /\ heartbeat_type \in HeartbeatTypes
          /\ calc \in {Call("decode", n) : n \in BodySizes}
       \/ /\ is_gt7 = TRUE
          /\ heartbeat_type = "A"
          /\ calc \in {Call("format_time_of_day", [milliseconds |-> ms, use_24hr |-> u]) :
                          ms \in FormatInputs, u \in BOOLEAN}
       \/ /\ is_gt7 = TRUE
          /\ heartbeat_type = "A"
          /\ calc \in {Call("from_dict", t) : t \in TelemetryFrames}

NextFunctions ==
    \/ decrypt_call
    \/ time_call
    \/ flags_call
    \/ gears_call
    \/ parse_call
    \/ vectors_call
    \/ decode_call
    \/ format_time_of_day_call
    \/ from_dict_call

SpecFunctions == InitFunctions /\ [][NextFunctions]_vars

(***************************************************************************)
(* User code that assigns to a field of a frame it holds (Telemetry is a   *)
(* dataclass that is not frozen).                                          *)
(***************************************************************************)
WriteValues == {-1}

\* the reader assigns to a field of a frame the getter returned to it
reader_writes(o, f, v) ==
    /\ rdr.pc = "idle"
    /\ o \in rdr.held
    /\ nwrites < MaxWrites
    /\ nwrites' = nwrites + 1
    /\ heap' = [heap EXCEPT ![o][f] = v]
    /\ UNCHANGED <<is_gt7, heartbeat_type, _telem, _telem_lock,
                   _telem_update_callbacks, work_queue, workers, ing, ndata,
                   outcome, rdr, ngets, nregops, cb_writes, error_log, set_values,
                   entry_telem, last_good, session, ctor, calc,
          collaborators>>

\* a running callback assigns to a field of the frame it was called with
callback_writes(w, f, v) ==
    /\ workers[w].st = "running"
    /\ cb_writes < MaxWrites
    /\ cb_writes' = cb_writes + 1
    /\ heap' = [heap EXCEPT ![workers[w].task.frame][f] = v]
    /\ UNCHANGED <<is_gt7, heartbeat_type, _telem, _telem_lock,
                   _telem_update_callbacks, work_queue, workers, ing, ndata,
                   outcome, rdr, ngets, nregops, nwrites, error_log, set_values,
                   entry_telem, last_good, session, ctor, calc,
          collaborators>>

FieldNames == {Fields[i] : i \in DOMAIN Fields}

\* the store alone: ingestion and a reader, nothing registered
NextStore ==
    \/ \E c \in Datagrams : _handle_data(c)
    \/ telemetry_setter_store
    \/ telemetry_setter_check
    \/ telemetry_getter_check
    \/ telemetry_getter_lock
    \/ telemetry_getter_copy

SpecStore == Init /\ [][NextStore]_vars

\* ingestion, the registry and the worker pool
NextDispatch ==
    \/ \E c \in Datagrams : _handle_data(c)
    \/ telemetry_setter_store
    \/ telemetry_setter_check
    \/ _invoke_callbacks
    \/ \E cb \in Callbacks, a \in ArgValues : register_callback(cb, a)
    \/ \E cb \in Callbacks : deregister_callback(cb)
    \/ \E w \in WorkerIds : worker_take(w)
    \/ \E w \in WorkerIds : _run_sync_callback_threaded(w)
    \/ \E w \in WorkerIds : _run_async_callback(w)
    \/ \E w \in WorkerIds : callback_blocks(w)

SpecDispatch == Init /\ [][NextDispatch]_vars

\* the ingestion steps after _handle_data has decoded a frame
setter_step ==
    \/ telemetry_setter_store
    \/ telemetry_setter_check
    \/ _invoke_callbacks

\* a callback runs to its end: it returns or raises
runner_step(w) ==
    \/ _run_sync_callback_threaded(w)
    \/ _run_async_callback(w)

\* callbacks registered before the first datagram, then ingestion, the pool,
\* and a reader that calls the getter while a worker is blocked in a handler
NextPool ==
    \/ \E c \in Datagrams : _handle_data(c)
    \/ telemetry_setter_store
    \/ telemetry_setter_check
    \/ _invoke_callbacks
    \/ \E cb \in Callbacks : ndata = 0 /\ register_callback(cb, None)
    \/ \E w \in WorkerIds : worker_take(w)
    \/ \E w \in WorkerIds : _run_sync_callback_threaded(w)
    \/ \E w \in WorkerIds : _run_async_callback(w)
    \/ \E w \in WorkerIds : callback_blocks(w)
    \/ (\E w \in WorkerIds : workers[w].st = "blocked") /\ telemetry_getter_check
    \/ telemetry_getter_lock
    \/ telemetry_getter_copy

SpecPool == Init /\ [][NextPool]_vars

\* no invocation is queued or under way
PoolIdle == work_queue = <<>> /\ \A w \in WorkerIds : workers[w].st = "idle"

\* a single subscriber that keeps up: one callback is registered before the
\* first datagram, and every invocation has ended when the next frame is stored
NextKeepUp ==
    \/ \E c \in Datagrams : _handle_data(c)
    \/ PoolIdle /\ telemetry_setter_store
    \/ telemetry_setter_check
    \/ _invoke_callbacks
    \/ \E cb \in Callbacks, a \in ArgValues :
           ndata = 0 /\ _telem_update_callbacks = <<>> /\ register_callback(cb, a)
    \/ \E w \in WorkerIds : worker_take(w)
    \/ \E w \in WorkerIds : _run_sync_callback_threaded(w)
    \/ \E w \in WorkerIds : _run_async_callback(w)

SpecKeepUp == Init /\ [][NextKeepUp]_vars

\* the threads are scheduled: the ingestion path and the reader run on, an idle
\* worker takes queued work, and a running callback ends or turns out to block
SpecPoolFair ==
    /\ Init /\ [][NextPool]_vars
    /\ WF_vars(setter_step)
    /\ WF_vars(telemetry_getter_lock \/ telemetry_getter_copy)
    /\ \A w \in WorkerIds : WF_vars(worker_take(w))
    /\ \A w \in WorkerIds : WF_vars(runner_step(w) \/ callback_blocks(w))

\* MyDatagramProtocol.datagram_received: the bound endpoint hands a datagram
\* to _handle_data on the loop thread
datagram_received(c) ==
    /\ session.thread = "running"
    /\ session.sock = "open"
    /\ _handle_data(c)

\* a started client with callbacks registered before start(): the loop thread,
\* ingestion, the worker pool, and stop()
NextShutdown ==
    \/ start
    \/ run_async_begin
    \/ heartbeat_check
    \/ heartbeat_send
    \/ heartbeat_sleep
    \/ listen_bind
    \/ listen_wake
    \/ gather_returns
    \/ gather_raises
    \/ stop_set
    \/ stop_join
    \/ stop_shutdown
    \/ \E cb \in Callbacks : session.thread = "new" /\ register_callback(cb, None)
    \/ \E c \in Datagrams : datagram_received(c)
    \/ telemetry_setter_store
    \/ telemetry_setter_check
    \/ _invoke_callbacks
    \/ \E w \in WorkerIds : worker_take(w)
    \/ \E w \in WorkerIds : _run_sync_callback_threaded(w)
    \/ \E w \in WorkerIds : _run_async_callback(w)
    \/ \E w \in WorkerIds : callback_blocks(w)

SpecShutdown == Init /\ [][NextShutdown]_vars

\* the store and a reader that writes to the frames it was returned
NextCopy ==
    \/ \E c \in Datagrams : _handle_data(c)
    \/ telemetry_setter_store
    \/ telemetry_setter_check
    \/ telemetry_getter_check
    \/ telemetry_getter_lock
    \/ telemetry_getter_copy
    \/ \E o \in ObjIds, f \in FieldNames, v \in WriteValues : reader_writes(o, f, v)

SpecCopy == Init /\ [][NextCopy]_vars

\* dispatch to callbacks that write to the frame they are called with
NextMutable ==
    \/ \E c \in Datagrams : _handle_data(c)
    \/ telemetry_setter_store
    \/ telemetry_setter_check
    \/ _invoke_callbacks
    \/ \E cb \in Callbacks : ndata = 0 /\ register_callback(cb, None)
    \/ \E w \in WorkerIds : worker_take(w)
    \/ \E w \in WorkerIds : _run_sync_callback_threaded(w)
    \/ \E w \in WorkerIds : _run_async_callback(w)
    \/ \E w \in WorkerIds, f \in FieldNames, v \in WriteValues : callback_writes(w, f, v)

SpecMutable == Init /\ [][NextMutable]_vars

\* every thread of the client
Next ==
    \/ NextDispatch
    \/ telemetry_getter_check
    \/ telemetry_getter_lock
    \/ telemetry_getter_copy
    \/ \E o \in ObjIds, f \in FieldNames, v \in WriteValues : reader_writes(o, f, v)
    \/ \E w \in WorkerIds, f \in FieldNames, v \in WriteValues : callback_writes(w, f, v)
    \/ NextSession
    \/ construct
    \/ client_init
    \/ NextFunctions
    \/ NextAttach
    \/ \E w \in WorkerIds : tracker_enter(w)
    \/ \E w \in WorkerIds : tracker_exit(w)
    \/ NextDriver
    \/ NextRace
    \/ NextRacePool
    \/ NextGame
    \/ NextDetector

Spec == Init /\ [][Next]_vars

(***************************************************************************)
(* Properties.                                                             *)
(***************************************************************************)
\* the frames the getter has returned so far
Returned == rdr.held

\* C1: every frame the getter has returned equals, field for field, the frame
\* passed to one single setter call: no returned frame mixes the fields of two
\* setter calls.
C1_NoTornRead ==
    \A o \in Returned : \E sv \in set_values : heap[o] = sv[2]

\* C1 witness: the getter has returned a frame whose copy was overtaken by a
\* later setter call (the stored frame already differs from the returned one).
C1_Witness ==
    /\ rdr.ret \in CopyIds
    /\ _telem # NoRef
    /\ heap[rdr.ret] # heap[_telem]
    /\ Cardinality(set_values) >= 2

\* the ways a datagram can be unusable, as C5 lists them
Undersized(c) == c.size < SeedEnd
BadHeader(c) ==
    /\ ~Undersized(c)
    /\ decrypt(c, is_gt7).hdr \notin {Tag0S7G, TagG6S0}
ShortBody(c) ==
    /\ ~Undersized(c)
    /\ decrypt(c, is_gt7).hdr \in {Tag0S7G, TagG6S0}
    /\ c.size - HeaderLen < body_size(heartbeat_type)

\* C5 (as claimed): for an undersized datagram, one with an unrecognised or
\* non-ASCII header, and one with a recognised header and a short body,
\* _handle_data returns normally.
C5_HandleDataNeverRaises ==
    (ing.pc = "idle" /\ ndata > 0
        /\ (Undersized(ing.data) \/ BadHeader(ing.data) \/ ShortBody(ing.data)))
    => outcome = "returned"

\* the frame a well-formed datagram carries
SentFrame(c) ==
    LET p == CHOOSE p \in Plaintexts : c = Encrypt(p, c.seed, is_gt7)
        order == IF p.hdr = Tag0S7G THEN "little" ELSE "big"
    IN  [engine_rpm |-> Int32(p.rpm, order), packet_id |-> Int32(p.pid, order)]

\* C7: between _handle_data calls the stored frame is None exactly when no
\* well-formed datagram has been handled, and otherwise equals the frame of the
\* most recent well-formed datagram; a getter call made in such a quiet period
\* returns just that.
C7_LatestFrame ==
    /\ ing.pc = "idle" =>
          IF last_good = NoData THEN _telem = NoRef
          ELSE _telem # NoRef /\ heap[_telem] = SentFrame(last_good)
    /\ (ing.pc = "idle" /\ rdr.pc = "idle" /\ rdr.ret # Unset /\ rdr.at = ndata) =>
          IF last_good = NoData THEN rdr.ret = NoRef
          ELSE rdr.ret # NoRef /\ heap[rdr.ret] = SentFrame(last_good)
    /\ entry_telem # NoRef => _telem # NoRef

\* C7 witness: two well-formed datagrams with different frames have been
\* handled and a getter call made after the second returned the second frame.
C7_Witness ==
    /\ ing.pc = "idle" /\ ndata = 2 /\ rdr.pc = "idle" /\ rdr.at = 2
    /\ Cardinality({sv[2] : sv \in set_values}) = 2
    /\ rdr.ret \in CopyIds
    /\ heap[rdr.ret] = SentFrame(last_good)

\* the workers inside a callback that never returns
Blocked == {w \in WorkerIds : workers[w].st = "blocked"}

\* every callback that stayed registered through the last dispatch was submitted
\* exactly once for its frame
SubmittedOnce == \A cb \in ing.stable : ing.sub[cb] = 1

\* C2: the ingestion path never waits for a subscriber: whatever the worker
\* pool is doing (idle, busy, every worker inside a handler that never
\* returns), the next step of the setter or of _invoke_callbacks can be taken,
\* and the dispatch loop has at most as many turns left as the registry had
\* entries when it began.
C2_IngestionNeverWaits ==
    /\ ing.pc = "store" => ENABLED telemetry_setter_store
    /\ ing.pc = "check" => ENABLED telemetry_setter_check
    /\ ing.pc = "next" => /\ ENABLED _invoke_callbacks
                          /\ ing.it.len >= 0
                          /\ ing.it.len <= ing.it.used

\* C2 witness: a _handle_data call has stored a frame, submitted work and
\* returned while every worker sits in a handler that never returns and earlier
\* work is still queued.
C2_Witness ==
    /\ Blocked = WorkerIds
    /\ ing.pc = "idle" /\ outcome = "returned"
    /\ _telem = ing.value /\ ing.value = ndata
    /\ \E cb \in Callbacks : ing.sub[cb] = 1
    /\ Len(work_queue) >= 2
    /\ \A i \in DOMAIN work_queue : work_queue[i].frame = ing.value

\* work queued for callback cb
Queued(cb) == \E i \in DOMAIN work_queue : work_queue[i].cb = cb

\* C3: with workers blocked forever in a handler, the store still holds the
\* frame of the latest well-formed datagram and a getter call returns it, a
\* getter call that has begun completes, and, while fewer than
\* max_callback_workers invocations are blocked, the work queued for every
\* callback is eventually taken by a worker.
C3_BlockedSubscriberIsolated ==
    /\ [](Blocked # {} =>
            /\ ing.pc = "idle" =>
                  IF last_good = NoData THEN _telem = NoRef
                  ELSE _telem # NoRef /\ heap[_telem] = SentFrame(last_good)
            /\ (ing.pc = "idle" /\ rdr.pc = "idle" /\ rdr.ret # Unset
                    /\ rdr.at = ndata) =>
                  IF last_good = NoData THEN rdr.ret = NoRef
                  ELSE rdr.ret # NoRef /\ heap[rdr.ret] = SentFrame(last_good))
    /\ (Blocked # {} /\ rdr.pc # "idle") ~> (rdr.pc = "idle")
    /\ \A cb \in Callbacks :
          Queued(cb) ~> (~Queued(cb) \/ Blocked = WorkerIds)

\* C3 witness: one worker is blocked in a handler for the first frame, the
\* second frame has been stored and returned by the getter, and a worker runs
\* the other callback for the second frame.
C3_Witness ==
    /\ \E w \in Blocked : workers[w].task.frame = 1
    /\ Blocked # WorkerIds
    /\ ing.pc = "idle" /\ ndata = 2 /\ _telem = 2
    /\ rdr.pc = "idle" /\ rdr.at = 2 /\ rdr.ret \in CopyIds
    /\ heap[rdr.ret] = heap[2]
    /\ \E w \in WorkerIds, b \in Blocked :
          /\ workers[w].st = "running"
          /\ workers[w].task.frame = 2
          /\ workers[w].task.cb # workers[b].task.cb

\* C4: a step in which a handler raises (the runner logs the error) leaves the
\* ingestion path, the registry, the queued work and the other workers as they
\* were and returns the worker to the pool; and every callback registered
\* through a dispatch that returned was submitted once for that frame, whatever
\* was raised before.
C4_HandlerErrorContained ==
    /\ [](ing.pc = "idle" /\ outcome = "returned" => SubmittedOnce)
    /\ [][error_log'.n # error_log.n =>
            /\ ing' = ing /\ outcome' = outcome /\ _telem' = _telem
            /\ _telem_update_callbacks' = _telem_update_callbacks
            /\ work_queue' = work_queue
            /\ \E w \in WorkerIds :
                  /\ workers[w].task.cb = error_log'.cb
                  /\ workers[w].task.frame = error_log'.frame
                  /\ workers'[w] = [st |-> "idle", task |-> NoTask]
                  /\ \A v \in WorkerIds \ {w} : workers'[v] = workers[v]]_vars

\* C4 witness: a handler raised for the first frame; the other handler runs for
\* that same frame and the handler that raised runs again for the second frame.
C4_Witness ==
    /\ error_log.n = 1 /\ error_log.frame = 1
    /\ error_log.cb \in dict_keys(_telem_update_callbacks)
    /\ \E w \in WorkerIds :
          /\ workers[w].st = "running"
          /\ workers[w].task.frame = 1
          /\ workers[w].task.cb # error_log.cb
    /\ \E w \in WorkerIds :
          /\ workers[w].st = "running"
          /\ workers[w].task.frame = 2
          /\ workers[w].task.cb = error_log.cb

\* a datagram _handle_data rejects: decryption raises, or the first four
\* decrypted bytes are neither "0S7G" nor "G6S0"
Rejected(c) ==
    \/ decrypt_raises(c)
    \/ HeaderOf[c, is_gt7] \notin {Tag0S7G, TagG6S0}

\* C6: a _handle_data call on a rejected datagram returns in one step that
\* leaves the stored frame (the reference and the object's fields) and the work
\* queue as they were, and submits nothing.
C6_RejectedLeavesStore ==
    [][(ndata' # ndata /\ Rejected(ing'.data)) =>
          /\ _telem' = _telem
          /\ heap' = heap
          /\ work_queue' = work_queue
          /\ ing'.pc = "idle" /\ ing'.sub = NoSub
          /\ outcome' = "returned"]_vars

\* C6 witness: with a frame stored and a callback registered, a datagram has
\* been rejected for its header and another for its size.
C6_Witness ==
    /\ ndata = 2 /\ ing.pc = "idle" /\ outcome = "returned"
    /\ Rejected(ing.data) /\ ~decrypt_raises(ing.data)
    /\ _telem = 1 /\ entry_telem = 1
    /\ dict_len(_telem_update_callbacks) > 0

\* C8: a write by the reader to a frame the getter returned changes no frame
\* that was passed to the setter and not the stored reference; a setter call
\* changes no frame returned earlier; and every getter call that returns a
\* frame returns an object the reader did not hold before.
C8_ReturnedFrameIndependent ==
    [][/\ nwrites' # nwrites =>
            /\ _telem' = _telem
            /\ \A o \in FrameIds : heap'[o] = heap[o]
       /\ _telem' # _telem => \A o \in rdr.held : heap'[o] = heap[o]
       /\ (ngets' # ngets /\ rdr'.ret # NoRef) =>
            /\ rdr'.ret \notin rdr.held
            /\ rdr'.ret # _telem
            /\ \A o \in rdr.held : heap'[o] = heap[o]]_vars

\* C8 witness: the reader has written to a returned frame, a later getter call
\* returned the stored frame's values, and a setter call came after that.
C8_Witness ==
    /\ nwrites = 1 /\ ngets = 2 /\ rdr.pc = "idle"
    /\ Cardinality(rdr.held) = 2
    /\ \E o \in rdr.held : \E f \in FieldNames : heap[o][f] \in WriteValues
    /\ \E o \in rdr.held : heap[o] = heap[1]
    /\ _telem = 2 /\ heap[2] # heap[1]

\* C9 (as claimed): the fields of a frame passed to the setter never change.
C9_FrameNeverMutates ==
    \A sv \in set_values : heap[sv[1]] = sv[2]

\* C10 (as claimed): a dispatch never raises, and every callback that stayed
\* registered through a dispatch was submitted exactly once.
C10_DispatchSurvivesRegistryChange ==
    /\ outcome # "RuntimeError"
    /\ (ing.pc = "idle" /\ outcome = "returned") => SubmittedOnce

\* the work submitted for callback cb and frame f that is queued or in a worker
Pending(cb, f) ==
    Cardinality({i \in DOMAIN work_queue :
                    work_queue[i].cb = cb /\ work_queue[i].frame = f})
    + Cardinality({w \in WorkerIds :
                    workers[w].task.cb = cb /\ workers[w].task.frame = f})

\* C11 (as claimed, its safety part): once a _handle_data call has ended, every
\* handler registered through the dispatch of its frame was submitted exactly
\* once for it, and no invocation is queued or run twice.
C11_EveryFrameSubmittedOnce ==
    /\ ing.pc = "idle" => SubmittedOnce
    /\ \A cb \in Callbacks, f \in FrameIds : Pending(cb, f) <= 1

\* C12 (as claimed): a handler is submitted for a frame exactly when it is in
\* the registry at the dispatch of that frame: every handler registered through
\* the dispatch is submitted once, and no handler is submitted that was not in
\* the registry when the dispatch began (the frame was stored before it was
\* registered).
C12_SubmittedIffRegistered ==
    ing.pc = "idle" =>
        \A cb \in Callbacks :
            /\ cb \in ing.stable => ing.sub[cb] = 1
            /\ ing.sub[cb] > 0 => cb \in ing.reg0

\* a datagram that decrypts, carries a recognised header and has a body of at
\* least the layout of the session's heartbeat type
Complete(c) ==
    /\ ~Rejected(c)
    /\ c.size - HeaderLen >= body_size(heartbeat_type)

\* C13: the stored frame is assigned only by the setter step of the ingestion
\* path, which a _handle_data call reaches only at its start, so at most once
\* per call and never by a worker; and a call on a complete datagram has
\* assigned its own new frame when it ends.
C13_StoredOncePerDatagram ==
    /\ []((ing.pc = "idle" /\ ndata > 0 /\ Complete(ing.data)) =>
            /\ _telem = ndata
            /\ _telem # entry_telem)
    /\ [][_telem' # _telem =>
            /\ ing.pc = "store" /\ ing'.pc = "check"
            /\ _telem' = ing.value
            /\ workers' = workers /\ work_queue' = work_queue]_vars
    /\ [][(ing'.pc = "store" /\ ing.pc # "store") =>
            /\ ing.pc = "idle"
            /\ ndata' = ndata + 1]_vars

\* C13 witness: two complete datagrams have been handled, each stored its own
\* frame, while a worker thread is running a callback.
C13_Witness ==
    /\ ing.pc = "idle" /\ ndata = 2 /\ Complete(ing.data)
    /\ entry_telem = 1 /\ _telem = 2
    /\ \E w \in WorkerIds : workers[w].st = "running"

\* the positions at which a loop is active
Active == {"check", "send", "sleep", "bind", "wait"}

\* the lifecycle state of the session: STOPPED once stop() has got past the
\* join or run() has returned, RUNNING from the creation of the two tasks
Phase ==
    IF session.stop \in {"returned", "TypeError"} \/ session.run = "returned"
    THEN "STOPPED"
    ELSE IF session.hb = "none" THEN "NOT_STARTED" ELSE "RUNNING"

StopDrained == session.stop \in {"returned", "TypeError"}

C17_RunReturnsAfterCancel ==
    (session.run = "forever" /\ session.token = "set") => ENABLED loop_step

\* C18: an error raised by the socket while a heartbeat is sent ends neither
\* loop: the heartbeat loop never ends by an exception, and either loop has
\* ended only once the cancellation signal is set.
C18_SendErrorNotFatal ==
    /\ session.hb # "raised"
    /\ session.hb = "done" => session.token = "set"
    /\ session.ls \in {"done", "cancelled"} => session.token = "set"

\* the datagram a heartbeat of this client has to be
Heartbeat == [byte |-> encode_ascii(heartbeat_type), ip |-> ctor.ip_addr,
              port |-> ReceivePort]

\* C19: while the cancellation signal is not set the heartbeat loop is alive
\* (checking, sending or sleeping); every heartbeat is the byte of the
\* configured wire variant sent to (ip_addr, RECEIVE_PORT); the first is sent
\* before any sleep and each later one after one sleep of 10 seconds; and the
\* loop has ended by its own return only after the signal was set.
C19_HeartbeatLoop ==
    /\ (session.token = "clear" /\ session.hb # "none") =>
           session.hb \in {"check", "send", "sleep"}
    /\ \A m \in session.sends :
           /\ [byte |-> m.byte, ip |-> m.ip, port |-> m.port] = Heartbeat
           /\ m.after = IF m.first THEN 0 ELSE HeartbeatPeriod
    /\ (session.hb = "sleep" /\ session.nsent < MaxHeartbeats) =>
           session.nsent = session.slept + 1
    /\ (session.hb \in {"check", "send"} /\ session.nsent < MaxHeartbeats) =>
           session.nsent = session.slept
    /\ session.hb = "done" => session.token = "set"

\* the inputs of a constructor call: is an address available, is the console
\* found on standby
NoAddress == ctor.reply = NoReply /\ ctor.ps_ip = None
OnStandby == ctor.reply # NoReply /\ ctor.reply.code = StandbyCode

C21_ExplicitAddressUsed ==
    (ctor.pc = "done" /\ ctor.ip_addr # None) =>
        ctor.ip_addr = IF ctor.ps_ip # None THEN ctor.ps_ip ELSE ctor.reply.ip

\* C24: the nonce mask takes three pairwise distinct values for "A", "B" and
\* "~", the key differs between the editions, and a constructor call with a
\* valid heartbeat type and a console that is awake gets its cipher object.
C24_CipherPerVariant ==
    (/\ ctor.pc = "done"
     /\ heartbeat_type \in HeartbeatTypes
     /\ ctor.ip_addr # None
     /\ ~OnStandby) =>
        /\ "crypto" \in ctor.created
        /\ KeyByte(TRUE) # KeyByte(FALSE)
        /\ \A a \in HeartbeatTypes, b \in HeartbeatTypes :
               a # b => mask_of(a) # mask_of(b)

\* the low and the high half of four little-endian bytes
Lo16(b) == b[1] + (256 * b[2])
Hi16(b) == b[3] + (256 * b[4])

\* C25: decrypt of a ciphertext of at least 0x44 bytes returns a plaintext of
\* the same length, under the nonce whose first word is the little-endian seed
\* of bytes 0x40..0x43 xored with 0xDEADBEAF (as a 32-bit value: every byte in
\* 0..255) and whose second word is the seed; a shorter ciphertext makes
\* decrypt raise.
C25_NonceAndLength ==
    (calc.op = "decrypt" /\ calc.st # "call") =>
        IF calc.arg.size < 68
        THEN calc.st = "raise"
        ELSE /\ calc.st = "return"
             /\ calc.out.plaintext.size = calc.arg.size
             /\ Len(calc.out.iv) = 8
             /\ \A i \in 1..8 : calc.out.iv[i] \in 0..255
             /\ Lo16(SubSeq(calc.out.iv, 1, 4)) = XorBits(Lo16(calc.arg.seed), 48815, 16)
             /\ Hi16(SubSeq(calc.out.iv, 1, 4)) = XorBits(Hi16(calc.arg.seed), 57005, 16)
             /\ SubSeq(calc.out.iv, 5, 8) = calc.arg.seed

\* C25 witness: a ciphertext of exactly 0x44 bytes whose seed has every bit set
\* has been decrypted.
C25_Witness ==
    /\ calc.op = "decrypt" /\ calc.st = "return"
    /\ calc.arg.size = 68
    /\ calc.arg.seed = <<255, 255, 255, 255>>
    /\ calc.out.iv = <<80, 65, 82, 33, 255, 255, 255, 255>>

\* the millisecond field an accessor reads
MsField(op, t) ==
    CASE op = "best_lap_time" -> t.best_lap_time_ms
      [] op = "last_lap_time" -> t.last_lap_time_ms
      [] op = "time_of_day" -> t.time_of_day_ms

\* the milliseconds a formatted value stands for
Recombined(v) ==
    IF v.layout = "MM:SS.sss"
    THEN (v.parts[1] * 60000) + (v.parts[2] * 1000) + v.parts[3]
    ELSE (v.parts[1] * 3600000) + (v.parts[2] * 60000) + (v.parts[3] * 1000)

BitOf(byte, k) == (byte \div Shl1(k)) % 2

C22_TrailerOfVariant ==
    (calc.op = "parse" /\ calc.st = "return") =>
        LET given == {n \in DOMAIN calc.out : calc.out[n] # <<>>}
            motion == {"wheel_rotation_radians", "filler_float_fb", "sway", "heave", "surge"}
            tilde == {"throttle_filtered", "brake_filtered", "unk_tilde_1", "unk_tilde_2",
                      "energy_recovery", "unk_tilde_3"}
        IN  /\ DOMAIN calc.out = motion \cup tilde
            /\ heartbeat_type = "A" => given = {}
            /\ heartbeat_type = "B" => given = motion
            /\ heartbeat_type = "~" => given = tilde
            /\ ~(given \cap motion # {} /\ given \cap tilde # {})

\* a "~" session decodes a message whose trailer bytes are all zero: the six "~"
\* fields are set (to 0) and the motion fields are not
C22_Witness ==
    /\ calc.op = "parse"
    /\ calc.st = "return"
    /\ heartbeat_type = "~"
    /\ calc.arg.tail = [i \in 1..TrailerTildeSize |-> 0]
    /\ calc.out["energy_recovery"] = <<0>>
    /\ calc.out["sway"] = <<>>

\* C23: a decrypted message whose first four bytes are "0S7G" has its body
\* decoded little-endian, one whose first four bytes are "G6S0" big-endian, and
\* any other header produces no frame; the decoded fields are those of the body
\* (the bytes after the header), the header is not among them.
C23_ByteOrderByHeader ==
    LET le(b) == b[1] + (256 * b[2]) + (65536 * b[3])
                     + (16777216 * (IF b[4] >= 128 THEN b[4] - 256 ELSE b[4]))
        be(b) == le(<<b[4], b[3], b[2], b[1]>>)
    IN  /\ ing.pc = "store" =>
               LET m == decrypt(ing.data, is_gt7)
                   t == heap[ing.value]
               IN  /\ ~decrypt_raises(ing.data)
                   /\ m.hdr \in {Tag0S7G, TagG6S0}
                   /\ DOMAIN t = {"engine_rpm", "packet_id"}
                   /\ m.hdr = Tag0S7G =>
                          t.engine_rpm = le(m.rpm) /\ t.packet_id = le(m.pid)
                   /\ m.hdr = TagG6S0 =>
                          t.engine_rpm = be(m.rpm) /\ t.packet_id = be(m.pid)
        /\ (ing.pc = "idle" /\ ing.data # NoData /\ ~decrypt_raises(ing.data)
                /\ decrypt(ing.data, is_gt7).hdr \notin {Tag0S7G, TagG6S0}) =>
               /\ outcome = "returned"
               /\ heap[ndata] = NoObj
               /\ _telem = entry_telem

\* a "G6S0" message whose packet id bytes are 2, 0, 0, 0 has been decoded: the
\* frame about to be stored has packet id 2 * 2^24
C23_Witness ==
    /\ ing.pc = "store"
    /\ decrypt(ing.data, is_gt7).hdr = TagG6S0
    /\ decrypt(ing.data, is_gt7).pid = <<2, 0, 0, 0>>
    /\ heap[ing.value].packet_id = 33554432

\* C29: the position accessor returns (position_x, position_y, position_z) and
\* the velocity accessor (velocity_x, velocity_y, velocity_z) of the frame, and
\* each depends on no other field: every frame with the same three raw fields
\* gives the same vector.
C29_VectorsProject ==
    (calc.op = "vectors" /\ calc.st = "return") =>
        /\ Len(calc.out.position) = 3
        /\ Len(calc.out.velocity) = 3
        /\ calc.out.position[1] = calc.arg["position_x"]
        /\ calc.out.position[2] = calc.arg["position_y"]
        /\ calc.out.position[3] = calc.arg["position_z"]
        /\ calc.out.velocity[1] = calc.arg["velocity_x"]
        /\ calc.out.velocity[2] = calc.arg["velocity_y"]
        /\ calc.out.velocity[3] = calc.arg["velocity_z"]
        /\ \A u \in VectorFrames :
              /\ (\A n \in {"position_x", "position_y", "position_z"} : u[n] = calc.arg[n])
                     => position(u) = calc.out.position
              /\ (\A n \in {"velocity_x", "velocity_y", "velocity_z"} : u[n] = calc.arg[n])
                     => velocity(u) = calc.out.velocity

\* the accessors were read on a frame whose position and velocity differ in
\* every component
C29_Witness ==
    /\ calc.op = "vectors"
    /\ calc.st = "return"
    /\ calc.out.position = <<2, -1, 2>>
    /\ calc.out.velocity = <<-1, 2, -1>>
    /\ calc.arg["engine_rpm"] = 2

\* C28: for every frame t, Telemetry.from_dict(t.as_dict) succeeds and returns
\* a frame whose position, velocity, rotation, angular velocity, road plane,
\* per-wheel values, gear nibbles, flag bits and remaining scalar fields equal
\* those of t, the empty and unused1..unused8 fields being 0.
C28_DictRoundTrip ==
    (calc.op = "from_dict" /\ calc.st # "call") =>
        /\ calc.st = "return"
        /\ DOMAIN calc.out = DOMAIN calc.arg
        /\ \A n \in DOMAIN calc.arg :
              CASE n = "flags" ->
                       \A k \in 0..15 :
                           (AndBits(Shl1(k), calc.out[n] % 65536, 16) # 0)
                               <=> (AndBits(Shl1(k), calc.arg[n] % 65536, 16) # 0)
                [] n = "bits" ->
                       /\ calc.out[n] % 16 = calc.arg[n] % 16
                       /\ calc.out[n] \div 16 = calc.arg[n] \div 16
                [] n = "empty" \/ contains(n, "unused") -> calc.out[n] = 0
                [] OTHER -> calc.out[n] = calc.arg[n]

\* C30: every collaborator instance constructed on a client is a registered
\* subscriber of it: its constructor returns, the registry holds its class's
\* state tracker with the instance as context, and for each frame stored after
\* the construction the tracker is submitted with that frame and that instance,
\* also when several instances of one class are attached.
C30_CollaboratorsSubscribed ==
    \A i \in DOMAIN collaborators :
        LET c == collaborators[i]
        IN  /\ c.result = "ok"
            /\ \E k \in DOMAIN _telem_update_callbacks :
                  /\ _telem_update_callbacks[k].live
                  /\ _telem_update_callbacks[k].cb = _state_tracker(c.cls)
                  /\ _telem_update_callbacks[k].args = c.self
            /\ (ing.pc = "idle" /\ outcome = "returned" /\ ing.value # NoRef
                    /\ _telem = ing.value /\ ing.value = ndata /\ c.at < ndata) =>
                   \E q \in DOMAIN work_queue :
                       /\ work_queue[q].cb = _state_tracker(c.cls)
                       /\ work_queue[q].frame = ing.value
                       /\ work_queue[q].args = c.self

\* C31: format_time_of_day(ms, use_24hr=True) returns the 24-hour form (the hour
\* is ms div 3600000, no AM/PM suffix) and with use_24hr=False the 12-hour form
\* (hour in 1..12, AM/PM suffix); in both, minutes are (ms mod 3600000) div 60000
\* and seconds (ms mod 60000) div 1000.
C31_TimeOfDayFormats ==
    (calc.op = "format_time_of_day" /\ calc.st = "return") =>
        LET ms == IF calc.arg.milliseconds < 0 THEN 0 ELSE calc.arg.milliseconds
        IN  /\ calc.out.parts[2] = (ms % 3600000) \div 60000
            /\ calc.out.parts[3] = (ms % 60000) \div 1000
            /\ calc.arg.use_24hr =>
                   /\ calc.out.layout = "HH:MM:SS"
                   /\ calc.out.parts[1] = ms \div 3600000
            /\ ~calc.arg.use_24hr =>
                   /\ calc.out.layout \in {"HH:MM:SS AM", "HH:MM:SS PM"}
                   /\ calc.out.parts[1] \in 1..12

\* C32: a single subscriber whose every invocation ends before the next frame is
\* stored is invoked in arrival order: each invocation starts with the frame
\* that is the latest stored at that moment, no other invocation is under way,
\* and the stored frame never goes back to an earlier arrival.
C32_KeepUpArrivalOrder ==
    [][/\ _telem' >= _telem
       /\ \A w \in WorkerIds :
             (workers[w].st = "idle" /\ workers'[w].st = "running") =>
                 /\ workers'[w].task.frame = _telem
                 /\ \A v \in WorkerIds : workers[v].st = "idle"
                 /\ Len(work_queue) = 1]_vars

\* the subscriber is being invoked with the second frame, after its invocation
\* with the first frame ended and the second frame was stored
C32_Witness ==
    /\ ndata = 2
    /\ _telem = 2
    /\ heap[1] # NoObj
    /\ ing.pc = "idle"
    /\ \E w \in WorkerIds : workers[w].st = "running" /\ workers[w].task.frame = 2
    /\ work_queue = <<>>

\* C33: decoding a body advances the cursor by the declared width of each field
\* (4 for int32 and float, 2 for int16, 1 for a byte), each read starting where
\* the one before ended; after a successful decode the cursor is at 292 for
\* variant "A", 312 for "B" and 320 for "~", longer bodies decode the same, and
\* a shorter body produces no frame.
C33_CursorByDeclaredWidth ==
    (calc.op = "decode" /\ calc.st # "call") =>
        LET end == CASE heartbeat_type = "A" -> 292
                     [] heartbeat_type = "B" -> 312
                     [] heartbeat_type = "~" -> 320
            declared(fn) == IF fn \in {"read_int32", "read_single"} THEN 4
                            ELSE IF fn = "read_int16" THEN 2 ELSE 1
        IN  /\ calc.st = "raise" <=> calc.arg < end
            /\ calc.st = "return" =>
                   /\ calc.out.position = end
                   /\ calc.out.reads[1].at = 0
                   /\ \A k \in 1..(Len(calc.out.reads) - 1) :
                         calc.out.reads[k + 1].at =
                             calc.out.reads[k].at + declared(calc.out.reads[k].fn)
                   /\ LET last == calc.out.reads[Len(calc.out.reads)]
                      IN  last.at + declared(last.fn) = end
                   /\ Cardinality({k \in DOMAIN calc.out.reads :
                                      calc.out.reads[k].field = ""}) =
                          IF heartbeat_type = "~" THEN 4 ELSE 0
                   /\ \A k \in DOMAIN calc.out.reads :
                         /\ calc.out.reads[k].field = "flags" =>
                                calc.out.reads[k].fn = "read_int16"
                         /\ calc.out.reads[k].field = "car_code" =>
                                calc.out.reads[k].at = 288

\* a body of 321 bytes is decoded in a "~" session: the cursor ends at 320
C33_Witness ==
    /\ calc.op = "decode"
    /\ calc.st = "return"
    /\ heartbeat_type = "~"
    /\ calc.arg = 321
    /\ calc.out.position = 320

\* C34: the DriverEvents and RaceEvents trackers process the frames one at a
\* time in arrival order: when a tracker run begins for a frame, the instance's
\* last is unset (the run primes it) or is the frame that arrived just before,
\* and no other run of the same instance is under way.
C34_TrackerOneFrameAtATime ==
    [][\A w \in WorkerIds :
          (/\ workers[w].st = "running"
           /\ workers'[w].st # "running"
           /\ workers[w].task.cb \in {_state_tracker("DriverEvents"),
                                      _state_tracker("RaceEvents")}) =>
              LET n == workers[w].task.frame
                  c == collaborators[context_of(workers[w].task)]
                  earlier == {f \in FrameIds : f < n /\ heap[f] # NoObj}
              IN  /\ \/ c.last = NoRef
                     \/ c.last \in earlier /\ \A f \in earlier : f <= c.last
                  /\ \A v \in WorkerIds \ {w} :
                        ~(/\ workers[v].st = "listeners"
                          /\ workers[v].task.args = workers[w].task.args)]_vars

\* C35: the on_shift_light_low (on_shift_light_high) listeners are called for a
\* frame exactly when the previous frame known to the tracker, the one held in
\* last (from construction or from an earlier call), had engine_rpm at or below
\* min_alert_rpm (max_alert_rpm) and the frame has engine_rpm above it.
C35_ShiftLightOnCrossing ==
    [][(calc' # calc /\ calc'.op = "DriverEvents._state_tracker") =>
          LET last == collaborators[1].last
              t == calc'.arg
          IN  /\ "on_shift_light_low" \in calc'.out <=>
                     /\ last # NoObj
                     /\ last.engine_rpm <= t.min_alert_rpm
                     /\ t.engine_rpm > t.min_alert_rpm
              /\ "on_shift_light_high" \in calc'.out <=>
                     /\ last # NoObj
                     /\ last.engine_rpm <= t.max_alert_rpm
                     /\ t.engine_rpm > t.max_alert_rpm]_vars

Fired(seq, e) == \E i \in 1..Len(seq) : seq[i] = e

Count(seq, e) == Cardinality({i \in 1..Len(seq) : seq[i] = e})

\* C36: the log of a RaceEvents instance, whose on_race_start listeners fire
\* when current_lap goes from 0 to 1 and whose on_race_finish listeners fire
\* only while a race is running, never holds more finishes than starts, at any
\* point, and holds a start between two finishes.
C36_RaceStartFinish ==
    \A c \in 1..Len(collaborators) :
        collaborators[c].cls = "RaceEvents" =>
            LET log == collaborators[c].log
            IN  /\ \A n \in 0..Len(log) :
                       Count(SubSeq(log, 1, n), "on_race_finish")
                           <= Count(SubSeq(log, 1, n), "on_race_start")
                /\ \A i, j \in 1..Len(log) :
                       (i < j /\ log[i] = "on_race_finish" /\ log[j] = "on_race_finish")
                           => \E k \in (i + 1)..(j - 1) : log[k] = "on_race_start"

\* with one call after the other: on_race_start fires exactly when current_lap
\* is 0 in the frame processed before and 1 in this one, on_race_finish only
\* while a race is running and current_lap = total_laps + 1
RaceCallsOneByOne ==
    [][(calc' # calc /\ calc'.op = "RaceEvents._state_tracker") =>
          LET self == collaborators[1]
              t == calc'.arg
              started == Fired(calc'.out, "on_race_start")
          IN  /\ started <=> (self.last # NoObj /\ self.last.current_lap = 0
                                                /\ t.current_lap = 1)
              /\ Fired(calc'.out, "on_race_finish") =>
                     /\ self.race_running \/ started
                     /\ t.current_lap = t.total_laps + 1
              /\ C36_RaceStartFinish'
              /\ collaborators'[1].last = t]_vars

\* two races started and finished
TwoRacesLogged ==
    /\ Len(collaborators) = 1
    /\ collaborators[1].cls = "RaceEvents"
    /\ Count(collaborators[1].log, "on_race_finish") = 2
    /\ calc.op = "RaceEvents._state_tracker"

GameCall == calc' # calc /\ calc'.op = "TurismoGame._state_tracker"

GameChanges ==
    { <<"NOT_RUNNING", "RUNNING">>, <<"RUNNING", "IN_MENU">>, <<"RUNNING", "AT_TRACK">>,
      <<"RUNNING", "IN_RACE">>, <<"RUNNING", "PAUSED">>, <<"RUNNING", "END_RACE">>,
      <<"IN_MENU", "AT_TRACK">>, <<"AT_TRACK", "IN_RACE">>, <<"AT_TRACK", "IN_MENU">>,
      <<"IN_RACE", "PAUSED">>, <<"IN_RACE", "END_RACE">>, <<"PAUSED", "IN_RACE">>,
      <<"PAUSED", "END_RACE">>, <<"END_RACE", "AT_TRACK">> }

C38_RunningPausedFrame ==
    [][(GameCall /\ calc'.st = "return") =>
          LET self == collaborators[1]
              t == calc'.arg
              after == SelectSeq(calc'.out, LAMBDA g : g # "RUNNING")
          IN  /\ Len(after) <= 1
              /\ (/\ t # NoObj
                  /\ self.game_state \in {"NOT_RUNNING", "RUNNING"}
                  /\ t.cars_on_track
                  /\ t.is_paused) =>
                     /\ collaborators'[1].game_state = "PAUSED"
                     /\ after = <<"PAUSED">>]_vars

Box(d) == <<d._minX, d._minY, d._maxX, d._maxY, d._old_xyz>>

\* C40: once detect_track holds a non-NoObj id, a frame that is loading, paused
\* or has cars_on_track set returns that id, and a loading or paused frame
\* leaves the box as it is; the id and the box are reset only by a frame that
\* is neither loading nor paused and has cars_on_track clear; after a frame
\* accumulated on track, minX <= maxX and minY <= maxY.
C40_TrackIdSticky ==
    [][(calc' # calc /\ calc'.op = "detect_track") =>
          LET self == collaborators[1]
              next == collaborators'[1]
              t == calc'.arg
              stopped == t.is_loading \/ t.is_paused
              resets == ~stopped /\ ~t.cars_on_track
          IN  /\ (self.track_id # NoObj /\ (stopped \/ t.cars_on_track)) =>
                     /\ calc'.out = self.track_id
                     /\ next.track_id = self.track_id
              /\ stopped => next = self
              /\ (self.track_id # NoObj /\ next.track_id = NoObj) => resets
              /\ (self._old_xyz # NoObj /\ next._old_xyz = NoObj) => resets
              /\ resets => /\ next.track_id = NoObj
                           /\ Box(next) = <<FarTenths, FarTenths, -FarTenths,
                                             -FarTenths, NoObj>>
              /\ next._old_xyz # NoObj =>
                     /\ next._minX <= next._maxX
                     /\ next._minY <= next._maxY]_vars

====
